---- MODULE Spec2Model ----
(***************************************************************************)
(* A model of the Luas XACML 3.0 Policy Decision Point of FLAAA: the       *)
(* request loader, the attribute designator with its module-level lookup   *)
(* cache, the Luas facade (evaluates / evaluateCallBack / parseRes /       *)
(* getFullObligationsFromPolicy) and the HTTP front end of pdp/app.js.     *)
(***************************************************************************)
EXTENDS Integers, Sequences, FiniteSets, TLC

VARIABLES
    policyFiles,   \* Luas.policyFiles: the configured policy files, in order
    luas,          \* app.js `let luas`: "undefined" or "instance"
    server,        \* app.js `let server`: "undefined" or "listening"
    initPc,        \* position of app.js init(): "start" or "done"
    loadFailed,    \* a configured policy file failed to load during init
    exited,        \* process.exit was called
    exitCode,      \* the code given to process.exit
    httpOut,       \* the HTTP answer of the last operation, if it was a GET /getDecision
    evalIn,        \* the request string the last operation gave to Luas.evaluates
    evalOut,       \* what Luas.evaluates returned for it
    pdpRan,        \* whether that call reached this.pdp.evaluate
    pdpOut,        \* the ResponseCtx result the PDP produced in that call
    cache,         \* part_000 line 21: cacheType .. cacheAttributes
    procs,         \* the evaluations in flight on the one PDP instance
    httpIn,        \* the HTTP request the last operation answered, if it answered one
    inflight,      \* the HTTP requests the server has accepted and not yet answered
    closing,       \* server.close was called and its callback has not run
    timerArmed,    \* the 10 s timer of gracefulShutdown is pending
    signals,       \* the SIGTERM and SIGINT signals the process has received
    valIn,         \* the arguments of the last call of a library function
    valOut         \* what that call returned

\* the state of gracefulShutdown and of the HTTP server's connections
shutVars == <<inflight, closing, timerArmed, signals>>

\* the last call of a library function
valVars == <<valIn, valOut>>

vars == <<policyFiles, luas, server, initPc, loadFailed, exited, exitCode,
          httpOut, evalIn, evalOut, pdpRan, pdpOut, cache, procs, httpIn,
          inflight, closing, timerArmed, signals, valIn, valOut>>

-----------------------------------------------------------------------------
(* Bounds of the model *)

\* evaluations that run in parallel on the one PDP instance
MaxProc == 3

\* HTTP requests the server has accepted and not yet answered
MaxInflight == 2

\* signals sent to the process
MaxSignals == 2

-----------------------------------------------------------------------------
(* Values *)

NoIssuer == "null"

StringType == "http://www.w3.org/2001/XMLSchema#string"
BooleanType == "http://www.w3.org/2001/XMLSchema#boolean"
DateTimeType == "http://www.w3.org/2001/XMLSchema#dateTime"
UnknownType == "http://www.w3.org/2001/XMLSchema#nonesuch"

ActionCategory == "urn:oasis:names:tc:xacml:3.0:attribute-category:action"
ResourceCategory == "urn:oasis:names:tc:xacml:1.0:attribute-category:resource"
SubjectCategory == "urn:oasis:names:tc:xacml:1.0:subject-category:access-subject"
EnvironmentCategory == "urn:oasis:names:tc:xacml:3.0:attribute-category:environment"

\* The text of a string or boolean <AttributeValue>.
StrVal(s) == [s |-> s]

\* The text of a dateTime literal, split the way dtRegex reads it:
\*   dt      "ok"       \d{4}-\d{2}-\d{2}T\d{2}:\d{2}:\d{2} naming a real date
\*           "invalid"  the same shape, no real date (month 13)
\*           "garbage"  another shape ("not-a-date")
\*   secs    the wall-clock seconds the dt part names
\*   hasDot  a "." follows the seconds
\*   frac    the digits after the "."
\*   tz      the text after that: "Z", "+01:00", "-01:00", "" or "+0100"
DtLit(dt, secs, hasDot, frac, tz) ==
    [dt |-> dt, secs |-> secs, hasDot |-> hasDot, frac |-> frac, tz |-> tz]

DtVal(l) == [lit |-> l]

TzDesignators == {"Z", "+01:00", "-01:00"}

\* seconds east of UTC that a timezone designator names
TzOffset(tz) ==
    CASE tz = "+01:00" -> 3600
      [] tz = "-01:00" -> 0 - 3600
      [] OTHER -> 0

-----------------------------------------------------------------------------
(* DateTimeAttribute: pdp/xacml/attr/dateTimeAttribute.js *)

\* /^\d{4}-\d{2}-\d{2}T\d{2}:\d{2}:\d{2}(?:\.\d+)?(?:Z|[+\-]\d{2}:\d{2})$/
dtRegexNoTz(l) ==
    /\ l.dt \in {"ok", "invalid"}
    /\ IF l.hasDot THEN Len(l.frac) >= 1 ELSE l.frac = <<>>
    /\ l.tz \in TzDesignators \cup {""}

dtRegex(l) ==
    /\ l.dt \in {"ok", "invalid"}
    /\ IF l.hasDot THEN Len(l.frac) >= 1 ELSE l.frac = <<>>
    /\ l.tz \in TzDesignators

\* moment(value, moment.ISO_8601, true).isValid(), for a value dtRegex accepts
momentIsValid(l) == l.dt = "ok"

FracDigit(frac, i) == IF i <= Len(frac) THEN frac[i] ELSE 0

\* a date that reads the wall-clock time and drops the offset
momentToDateLocal(l) ==
    l.secs * 1000
        + 100 * FracDigit(l.frac, 1) + 10 * FracDigit(l.frac, 2) + FracDigit(l.frac, 3)

\* m.toDate(): the instant in milliseconds; moment keeps three fraction digits
momentToDate(l) ==
    (l.secs - TzOffset(l.tz)) * 1000
        + 100 * FracDigit(l.frac, 1) + 10 * FracDigit(l.frac, 2) + FracDigit(l.frac, 3)

NANOS_PER_MILLI == 1000000
MILLIS_PER_SECOND == 1000
NANOS_PER_SECOND == NANOS_PER_MILLI * MILLIS_PER_SECOND

\* 10^n
RECURSIVE Pow10(_)
Pow10(n) == IF n = 0 THEN 1 ELSE 10 * Pow10(n - 1)

\* lines 96-107: the fraction's digits, padded with zeros or cut to nine, read
\* as a number
RECURSIVE nanoDigits(_, _)
nanoDigits(frac, i) ==
    IF i > 9 THEN 0 ELSE FracDigit(frac, i) * Pow10(9 - i) + nanoDigits(frac, i + 1)

extractNanos(l) == IF l.hasDot THEN nanoDigits(l.frac, 1) ELSE 0

\* DateTimeAttribute.prototype.combineNanos(date, nanoseconds): the value it
\* returns; the date it computes is assigned to its parameter only
combineNanos(millis, nanoseconds) ==
    LET milliCarry == millis % MILLIS_PER_SECOND
    IN  IF milliCarry = 0 /\ nanoseconds > 0 /\ nanoseconds < NANOS_PER_SECOND
        THEN nanoseconds
        ELSE (nanoseconds + milliCarry * NANOS_PER_MILLI) % NANOS_PER_SECOND

\* DateTimeAttribute.prototype.getInstance on the text of an <AttributeValue>:
\* ok = FALSE stands for `throw new Error('Malformed dateTime value: ' + value)`;
\* attr holds this.value (milliseconds) and this.nanoseconds as init sets them.
DateTimeGetInstance(l) ==
    IF ~dtRegex(l) THEN [ok |-> FALSE, message |-> "Malformed dateTime value"]
    ELSE IF ~momentIsValid(l) THEN [ok |-> FALSE, message |-> "Malformed dateTime value"]
    ELSE [ok |-> TRUE,
          attr |-> [value |-> momentToDate(l),
                    nanoseconds |-> combineNanos(momentToDate(l), extractNanos(l))]]

\* DateTimeAttribute.prototype.equals: `throw new Error()` whatever the argument.
DateTimeEquals(a, b) == [threw |-> TRUE]

\* dateTime-greater-than on two parsed values: a is the later instant, by
\* milliseconds and then by the nanoseconds kept beside them
dateTimeGreaterThan(a, b) ==
    a.value > b.value \/ (a.value = b.value /\ a.nanoseconds > b.nanoseconds)

-----------------------------------------------------------------------------
(* Requests and the request loader *)

Attr(category, id, type, value) ==
    [category |-> category, id |-> id, type |-> type, issuer |-> NoIssuer, value |-> value]

\* A request string: xml is "ok" for a well-formed document rooted at <Request>,
\* "malformed" for text that is no XML document, "wrongroot" for a well-formed
\* document with another root; attrs are its <Attribute> elements; finder is the
\* state of the attribute finder chain while the request is evaluated.
Req(xml, attrs, finder) == [xml |-> xml, attrs |-> attrs, finder |-> finder]

\* a parser that hands back a root node for any text
parseInputAnyRoot(req, rootTag) == TRUE

\* InputParser.prototype.parseInput: the root node, or null (FALSE) when the
\* document has no root element named rootTag.
parseInput(req, rootTag) == req.xml = "ok" /\ rootTag = "Request"

\* The attribute factory: the typed value of one <AttributeValue>, or a throw.
AttributeValueGetInstance(type, v) ==
    CASE type = StringType -> [ok |-> TRUE, attr |-> v]
      [] type = BooleanType ->
            IF v.s \in {"true", "false"}
            THEN [ok |-> TRUE, attr |-> [b |-> v.s = "true"]]
            ELSE [ok |-> FALSE, message |-> "Malformed boolean value"]
      [] type = DateTimeType -> DateTimeGetInstance(v.lit)
      [] OTHER -> [ok |-> FALSE, message |-> "Unknown dataType"]

\* RequestCtxFactory.getRequestCtxWithRequest followed by the construction of
\* the evaluation context: ok = FALSE is a throw; otherwise the context holds a
\* newly allocated attribute store (attributesSet) whose identity is storeId.
getRequestCtxWithRequest(req, storeId) ==
    IF ~parseInput(req, "Request")
    THEN [ok |-> FALSE, message |-> "Request could not be parsed"]
    ELSE IF \E a \in req.attrs : ~AttributeValueGetInstance(a.type, a.value).ok
    THEN [ok |-> FALSE,
          message |-> (CHOOSE m \in {AttributeValueGetInstance(a.type, a.value).message :
                            a \in {x \in req.attrs : ~AttributeValueGetInstance(x.type, x.value).ok}} : TRUE)]
    ELSE [ok |-> TRUE,
          attributesSet |-> [id |-> storeId,
                             attrs |-> {[category |-> a.category, id |-> a.id, type |-> a.type,
                                         issuer |-> a.issuer,
                                         value |-> AttributeValueGetInstance(a.type, a.value).attr] :
                                        a \in req.attrs}],
          finder |-> req.finder]

\* context.getAttribute(type, id, issuer, category): the bag of the request's
\* values for the descriptor; a miss goes to the finder chain, which yields
\* nothing for these ids, or Indeterminate when a module fails.
GetAttribute(context, type, id, issuer, category) ==
    LET bag == {a.value : a \in {x \in context.attributesSet.attrs :
                                    /\ x.category = category /\ x.id = id /\ x.type = type
                                    /\ (issuer = NoIssuer \/ x.issuer = issuer)}}
    IN  IF bag = {} /\ context.finder = "error"
        THEN [indeterminate |-> TRUE,
              status |-> [code |-> <<"processing-error">>, message |-> "finder module failed",
                          detail |-> <<>>]]
        ELSE [indeterminate |-> FALSE, attributeValues |-> bag]

-----------------------------------------------------------------------------
(* AttributeDesignator: unnamed/part_000 *)

Designator(type, id, mustBePresent, category) ==
    [type |-> type, id |-> id, mustBePresent |-> mustBePresent, issuer |-> NoIssuer,
     category |-> category]

\* The module-level variables of line 21 before any lookup: all undefined.
EmptyCache ==
    [type |-> "undefined", id |-> "undefined", issuer |-> "undefined", category |-> "undefined",
     result |-> [undefined |-> TRUE], attributes |-> [id |-> 0, attrs |-> {}]]

\* line 103 without the comparison of cacheAttributes with context.attributesSet
cacheHitNoStore(d, context, c) ==
    /\ c.type = d.type /\ c.id = d.id /\ c.issuer = d.issuer /\ c.category = d.category

\* line 103: the test that the cached lookup may be used
cacheHit(d, context, c) ==
    /\ c.type = d.type /\ c.id = d.id /\ c.issuer = d.issuer /\ c.category = d.category
    /\ c.attributes = context.attributesSet

\* lines 102-113: the lookup through the cache; the looked-up result and the
\* cache afterwards
designatorLookup(d, context, c) ==
    IF cacheHit(d, context, c)
    THEN [result |-> c.result, cache |-> c]
    ELSE LET result == GetAttribute(context, d.type, d.id, d.issuer, d.category)
         IN  [result |-> result,
              cache |-> [type |-> d.type, id |-> d.id, issuer |-> d.issuer,
                         category |-> d.category, result |-> result,
                         attributes |-> context.attributesSet]]

\* lines 116-160 with mustBePresent ignored
designatorResultLenient(d, result) == result

\* lines 116-160: what evaluate returns for the looked-up result
designatorResult(d, result) ==
    IF result.indeterminate THEN result
    ELSE IF result.attributeValues = {} /\ d.mustBePresent
    THEN [wasInd |-> TRUE, value |-> "null",
          status |-> [code |-> <<"missing-attribute">>,
                      message |-> "Couldn't find AttributeDesignator attribute",
                      detail |-> <<[id |-> d.id, type |-> d.type, category |-> d.category,
                                    issuer |-> d.issuer]>>],
          indeterminate |-> TRUE]
    ELSE result

\* AttributeDesignator.prototype.evaluate(context): the value returned (out),
\* the lookup it rests on (looked) and the cache afterwards
designatorEvaluate(d, context, c) ==
    LET l == designatorLookup(d, context, c)
    IN  [out |-> designatorResult(d, l.result), looked |-> l.result, cache |-> l.cache]

-----------------------------------------------------------------------------
(* Policies and the PDP: the FL governance policy set of the conformance     *)
(* tests, one policy per action under a deny-overrides root                  *)

DAction == Designator(StringType, "action", FALSE, ActionCategory)
DTaskId == Designator(StringType, "task_id", TRUE, ResourceCategory)
DRole == Designator(StringType, "task_role", TRUE, SubjectCategory)
DExpires == Designator(DateTimeType, "task_expires", TRUE, ResourceCategory)
DNow == Designator(DateTimeType, "current-dateTime", TRUE, EnvironmentCategory)

\* <ObligationExpression ObligationId FulfillOn> with its <AttributeAssignment>s
ObligationExpression(oid, fulfillOn, assignments) ==
    [obligationId |-> oid, fulfillOn |-> fulfillOn, assignments |-> assignments]

AttributeAssignment(attrId, value) ==
    [attributeId |-> attrId, category |-> "null", issuer |-> "null",
     dataType |-> StringType, value |-> value, designator |-> "null"]

\* A policy file: whether the loader accepts it, the action its Target matches,
\* the condition of its Permit rule ("role": task_id is medical and task_role is
\* participant; "dtEqual": task_id is medical and task_expires dateTime-equal
\* current-dateTime), and its obligation expressions in document order.
PolicyFile(name, loads, action, cond, obligations) ==
    [name |-> name, loads |-> loads, action |-> action, cond |-> cond,
     obligations |-> obligations]

\* The designators one policy evaluates, in document order: the Target of the
\* policy set and of the policy, then the Permit rule's condition.
policyDesignators(pf) ==
    <<DAction, DAction, DTaskId>>
        \o (IF pf.cond = "role" THEN <<DRole>> ELSE <<DExpires, DNow>>)

RECURSIVE allDesignators(_)
allDesignators(pfs) ==
    IF pfs = <<>> THEN <<>>
    ELSE policyDesignators(Head(pfs)) \o allDesignators(Tail(pfs))

\* Target match of one policy on the two action lookups (3-valued conjunction)
targetResult(pf, outs) ==
    LET one(o) == IF o.indeterminate THEN "Indeterminate"
                  ELSE IF StrVal(pf.action) \in o.attributeValues THEN "Match"
                  ELSE "NoMatch"
    IN  IF one(outs[1]) = "NoMatch" \/ one(outs[2]) = "NoMatch" THEN "NoMatch"
        ELSE IF one(outs[1]) = "Indeterminate" \/ one(outs[2]) = "Indeterminate"
        THEN "Indeterminate"
        ELSE "Match"

\* The Permit rule of one policy: "Permit", "NotApplicable", "IndeterminateP",
\* or "threw" when a function applied in the condition throws.
OneAndOnly(o) == ~o.indeterminate /\ Cardinality(o.attributeValues) = 1

permitRule(pf, outs) ==
    LET n == Len(outs)
        args == {outs[i] : i \in 3..n}
    IN  IF \E o \in args : ~OneAndOnly(o) THEN "IndeterminateP"
        ELSE IF outs[3].attributeValues # {StrVal("medical")} THEN "NotApplicable"
        ELSE IF pf.cond = "role"
        THEN IF outs[4].attributeValues = {StrVal("participant")}
             THEN "Permit" ELSE "NotApplicable"
        ELSE LET a == CHOOSE v \in outs[4].attributeValues : TRUE
                 b == CHOOSE v \in outs[5].attributeValues : TRUE
                 r == DateTimeEquals(a, b)
             IN  IF pf.cond = "dtGreater"
                 THEN IF dateTimeGreaterThan(a, b) THEN "Permit" ELSE "NotApplicable"
                 ELSE IF r.threw THEN "threw"
                 ELSE IF r.value THEN "Permit" ELSE "NotApplicable"

\* One policy: its Permit rule and a catch-all Deny rule, so that anything but
\* Permit is Deny when the Target matches.
policyResult(pf, outs) ==
    LET t == targetResult(pf, outs)
        r == permitRule(pf, outs)
        rules == IF r = "Permit" THEN "Permit" ELSE "Deny"
    IN  IF t = "NoMatch" THEN "NotApplicable"
        ELSE IF r = "threw" THEN "threw"
        ELSE IF t = "Match" THEN rules
        ELSE IF rules = "Permit" THEN "IndeterminateP" ELSE "IndeterminateD"

\* deny-overrides over the policies' decisions
denyOverrides(ds) ==
    IF "Deny" \in ds THEN "Deny"
    ELSE IF "IndeterminateD" \in ds \/ "IndeterminateDP" \in ds THEN "IndeterminateD"
    ELSE IF "Permit" \in ds THEN "Permit"
    ELSE IF "IndeterminateP" \in ds THEN "IndeterminateP"
    ELSE "NotApplicable"

\* The slice of the designator results that belongs to the i-th policy file
RECURSIVE sliceStart(_, _)
sliceStart(pfs, i) ==
    IF i = 1 THEN 0 ELSE sliceStart(pfs, i - 1) + Len(policyDesignators(pfs[i - 1]))

policyOuts(pfs, i, outs) ==
    SubSeq(outs, sliceStart(pfs, i) + 1, sliceStart(pfs, i) + Len(policyDesignators(pfs[i])))

\* The obligations the PDP attaches: those of the policies that produced the
\* final decision whose FulfillOn equals it, in document order.
RECURSIVE dueObligations(_, _, _, _)
dueObligations(pfs, i, outs, decision) ==
    IF i > Len(pfs) THEN <<>>
    ELSE LET mine == IF policyResult(pfs[i], policyOuts(pfs, i, outs)) = decision
                     THEN SelectSeq(pfs[i].obligations, LAMBDA o : o.fulfillOn = decision)
                     ELSE <<>>
         IN  mine \o dueObligations(pfs, i + 1, outs, decision)

OkStatus == [code |-> <<"ok">>, message |-> "null", detail |-> <<>>]

\* The positions in outs of the failed lookups of the policies whose Target
\* did not say NoMatch: the rules of a policy that is not applicable are not
\* evaluated and leave no status.
evaluatedIndeterminates(pfs, outs) ==
    UNION {{sliceStart(pfs, j) + k :
                k \in {n \in 1..Len(policyDesignators(pfs[j])) :
                            policyOuts(pfs, j, outs)[n].indeterminate}} :
           j \in {m \in 1..Len(pfs) :
                    targetResult(pfs[m], policyOuts(pfs, m, outs)) # "NoMatch"}}

\* PDP.evaluate(request).getResults()[0], from the designators' results:
\* threw = TRUE when the evaluation throws, else the result's decision,
\* obligations, echoed attributes and status.
pdpEvaluate(pfs, outs) ==
    LET ds == {policyResult(pfs[i], policyOuts(pfs, i, outs)) : i \in 1..Len(pfs)}
        decision == denyOverrides(ds)
        inds == evaluatedIndeterminates(pfs, outs)
        first == CHOOSE i \in inds : \A j \in inds : i <= j
    IN  IF "threw" \in ds THEN [threw |-> TRUE]
        ELSE [threw |-> FALSE,
              decision |-> decision,
              obligations |-> IF decision \in {"Permit", "Deny"}
                              THEN dueObligations(pfs, 1, outs, decision) ELSE <<>>,
              attributes |-> <<>>,
              status |-> IF decision # "Permit" /\ inds # {} THEN outs[first].status
                         ELSE OkStatus]

-----------------------------------------------------------------------------
(* Luas: unnamed/part_002 *)

\* JSON.stringify of a list
JsonStringify(x) == [json |-> x]

Undefined == [undefined |-> TRUE]

\* parseRes: the decision string for a Result decision code, null otherwise
parseRes(response) ==
    CASE response = "Permit" -> "Permit"
      [] response = "Deny" -> "Deny"
      [] response = "Indeterminate" -> "Indeterminate"
      [] response = "NotApplicable" -> "NotApplicable"
      [] response = "IndeterminateD" -> "Indeterminate"
      [] response = "IndeterminateP" -> "Indeterminate"
      [] response = "IndeterminateDP" -> "Indeterminate"
      [] OTHER -> "null"

\* lines 128-182: every ObligationExpression of every policy file whose
\* ObligationId is among ids, in file and document order
RECURSIVE collectObligations(_, _)
collectObligations(pfs, ids) ==
    IF pfs = <<>> THEN <<>>
    ELSE SelectSeq(Head(pfs).obligations, LAMBDA o : o.obligationId \in ids)
            \o collectObligations(Tail(pfs), ids)

\* lines 183-192: remove duplicates by obligationId, keeping the first
RECURSIVE uniqByObligationId(_, _)
uniqByObligationId(result, seen) ==
    IF result = <<>> THEN <<>>
    ELSE IF Head(result).obligationId \in seen
    THEN uniqByObligationId(Tail(result), seen)
    ELSE <<Head(result)>>
            \o uniqByObligationId(Tail(result), seen \cup {Head(result).obligationId})

\* Luas.prototype.getFullObligationsFromPolicy(obligations)
getFullObligationsFromPolicy(pfs, obligations) ==
    IF obligations = <<>> THEN <<>>
    ELSE LET ids == {obligations[i].obligationId : i \in 1..Len(obligations)}
         IN  uniqByObligationId(collectObligations(pfs, ids), {})

\* The AttributeIds of the policies whose lower-cased text includes 'reason'
ReasonAttributeIds == {"reason", "deny-reason", "denyReason"}

\* lines 99-110: the reason assignments of the obligations, on Deny
RECURSIVE assignmentReasons(_)
assignmentReasons(assigns) ==
    IF assigns = <<>> THEN <<>>
    ELSE LET a == Head(assigns)
         IN  (IF a.attributeId \in ReasonAttributeIds /\ a.value # ""
              THEN <<a.value>> ELSE <<>>)
                \o assignmentReasons(Tail(assigns))

RECURSIVE obligationReasons(_)
obligationReasons(obls) ==
    IF obls = <<>> THEN <<>>
    ELSE assignmentReasons(Head(obls).assignments) \o obligationReasons(Tail(obls))

\* The designators of an evaluation, one after the other through the cache
RECURSIVE runDesignators(_, _, _)
runDesignators(ds, context, c) ==
    IF ds = <<>> THEN [outs |-> <<>>, cache |-> c]
    ELSE LET e == designatorEvaluate(Head(ds), context, c)
             rest == runDesignators(Tail(ds), context, e.cache)
         IN  [outs |-> <<e.out>> \o rest.outs, cache |-> rest.cache]

\* lines 85-93: what evaluateCallBack returns when the request cannot be loaded
parseFailureResponse(message) ==
    [obligations |-> JsonStringify(<<>>), attributes |-> JsonStringify(<<>>),
     decision |-> "Indeterminate", reason |-> [isNull |-> TRUE, list |-> <<>>],
     message |-> message]

\* lines 95-118: the response built from the PDP's result
buildResponse(pfs, responseCtx) ==
    LET fullObligations == getFullObligationsFromPolicy(pfs, responseCtx.obligations)
        decisionStr == parseRes(responseCtx.decision)
        reasons == IF decisionStr = "Deny" THEN obligationReasons(fullObligations) ELSE <<>>
    IN  [obligations |-> JsonStringify(fullObligations),
         attributes |-> JsonStringify(responseCtx.attributes),
         decision |-> decisionStr,
         reason |-> IF Len(reasons) > 0 THEN [isNull |-> FALSE, list |-> reasons]
                    ELSE [isNull |-> TRUE, list |-> <<>>],
         message |-> responseCtx.status.message]

\* lines 95-118 after the designators have been evaluated: threw = TRUE when
\* an exception leaves evaluateCallBack, else ret is the response; pdp is the
\* result of this.pdp.evaluate.
respond(pfs, outs) ==
    LET responseCtx == pdpEvaluate(pfs, outs)
    IN  IF responseCtx.threw
        THEN [threw |-> TRUE, ret |-> Undefined, pdp |-> responseCtx]
        ELSE [threw |-> FALSE, ret |-> buildResponse(pfs, responseCtx), pdp |-> responseCtx]

\* Luas.prototype.evaluateCallBack(requestFile): ran tells whether
\* this.pdp.evaluate was called, cache is the designator cache afterwards.
evaluateCallBack(pfs, req, storeId, c) ==
    LET request == getRequestCtxWithRequest(req, storeId)
    IN  IF ~request.ok
        THEN [threw |-> FALSE, ret |-> parseFailureResponse(request.message),
              ran |-> FALSE, pdp |-> Undefined, cache |-> c]
        ELSE LET run == runDesignators(allDesignators(pfs), request, c)
                 r == respond(pfs, run.outs)
             IN  [threw |-> r.threw, ret |-> r.ret, ran |-> TRUE, pdp |-> r.pdp,
                  cache |-> run.cache]

\* Luas.prototype.evaluates(request): the catch block logs the error and falls
\* off the end of the function, which returns undefined.
evaluates(pfs, req, storeId, c) ==
    LET r == evaluateCallBack(pfs, req, storeId, c)
    IN  [ret |-> IF r.threw THEN Undefined ELSE r.ret,
         ran |-> r.ran, pdp |-> r.pdp, cache |-> r.cache]

-----------------------------------------------------------------------------
(* The request builder (unnamed/part_003) and the policy information point   *)
(* (unnamed/part_004 lines 151-216)                                          *)

\* x || y on values that are undefined or a record
OrElse(x, y) == IF x = Undefined THEN y ELSE x

DefaultExpiry == DtVal(DtLit("ok", 9000, FALSE, <<>>, "Z"))

\* tasks[taskId] || tasks.default || null, on the parsed nodes.json
taskOf(data, taskId) ==
    OrElse(IF taskId \in DOMAIN data.tasks THEN data.tasks[taskId] ELSE Undefined,
           IF "default" \in DOMAIN data.tasks THEN data.tasks["default"] ELSE Undefined)

nodeOf(task, nodeId) ==
    OrElse(IF nodeId \in DOMAIN task.nodes THEN task.nodes[nodeId] ELSE Undefined,
           IF "default" \in DOMAIN task.nodes THEN task.nodes["default"] ELSE Undefined)

getTaskPolicyInfo(data, taskId, now) ==
    LET info == taskOf(data, taskId)
    IN  IF info = Undefined THEN Undefined
        ELSE [taskExpires |-> info.task_expires, current_date_time |-> now]

getMembershipInfo(data, taskId, nodeId, now) ==
    LET task == taskOf(data, taskId)
    IN  IF task = Undefined THEN Undefined
        ELSE LET nodeInfo == nodeOf(task, nodeId)
             IN  IF nodeInfo = Undefined THEN Undefined
                 ELSE [taskExpires |-> task.task_expires,
                       isMember |-> nodeInfo.is_member_of_task,
                       taskMembershipExpires |-> OrElse(nodeInfo.task_membership_expires,
                                                        task.task_membership_expires),
                       taskRole |-> OrElse(nodeInfo.task_role, task.task_role),
                       current_date_time |-> now]

getMembershipTypeInfo(data, taskId, now) ==
    LET task == taskOf(data, taskId)
    IN  IF task = Undefined THEN Undefined
        ELSE LET defaultNode == IF "default" \in DOMAIN task.nodes
                                THEN task.nodes["default"] ELSE Undefined
             IN  IF defaultNode = Undefined THEN Undefined
                 ELSE [taskExpires |-> task.task_expires,
                       isMember |-> defaultNode.is_member_of_task,
                       taskMembershipExpires |-> OrElse(defaultNode.task_membership_expires,
                                                        task.task_membership_expires),
                       taskRole |-> defaultNode.task_role,
                       current_dateTime |-> now]

\* The builders return the request, or null (Undefined)
buildTaskApprovalRequest(params, data, now, finder) ==
    IF params.task_id = "" THEN Undefined
    ELSE LET info == getTaskPolicyInfo(data, params.task_id, now)
         IN  IF info = Undefined THEN Undefined
             ELSE Req("ok",
                      {Attr(ActionCategory, "action", StringType, StrVal("task-authorization")),
                       Attr(ResourceCategory, "task_id", StringType, StrVal(params.task_id)),
                       Attr(ResourceCategory, "task_expires", DateTimeType,
                            OrElse(info.taskExpires, DefaultExpiry)),
                       Attr(EnvironmentCategory, "current-dateTime", DateTimeType, now)},
                      finder)

buildMembershipValidationRequest(params, data, now, finder) ==
    IF params.node_id = "" \/ params.task_id = "" THEN Undefined
    ELSE LET info == getMembershipInfo(data, params.task_id, params.node_id, now)
         IN  IF info = Undefined THEN Undefined
             ELSE Req("ok",
                      {Attr(ActionCategory, "action", StringType, StrVal("node-activation")),
                       Attr(ResourceCategory, "task_id", StringType, StrVal(params.task_id)),
                       Attr(ResourceCategory, "task_expires", DateTimeType,
                            OrElse(info.taskExpires, DefaultExpiry)),
                       Attr(SubjectCategory, "node_id", StringType, StrVal(params.node_id)),
                       Attr(SubjectCategory, "is_member_of_task", BooleanType,
                            OrElse(info.isMember, StrVal("false"))),
                       Attr(SubjectCategory, "task_membership_expires", DateTimeType,
                            OrElse(info.taskMembershipExpires, DefaultExpiry)),
                       Attr(EnvironmentCategory, "current-dateTime", DateTimeType, now)},
                      finder)

buildMembershipTypeRequest(params, data, now, finder) ==
    IF params.task_id = "" THEN Undefined
    ELSE LET byNode == IF params.node_id # ""
                       THEN getMembershipInfo(data, params.task_id, params.node_id, now)
                       ELSE Undefined
             info == IF byNode = Undefined
                     THEN getMembershipTypeInfo(data, params.task_id, now) ELSE byNode
         IN  IF info = Undefined THEN Undefined
             ELSE Req("ok",
                      {Attr(ActionCategory, "action", StringType, StrVal(params.action)),
                       Attr(ResourceCategory, "task_id", StringType, StrVal(params.task_id)),
                       Attr(ResourceCategory, "task_expires", DateTimeType,
                            OrElse(info.taskExpires, DefaultExpiry)),
                       Attr(SubjectCategory, "is_member_of_task", BooleanType,
                            OrElse(info.isMember, StrVal("true"))),
                       Attr(SubjectCategory, "task_membership_expires", DateTimeType,
                            OrElse(info.taskMembershipExpires, DefaultExpiry)),
                       Attr(SubjectCategory, "task_role", StringType,
                            OrElse(info.taskRole, StrVal("participant"))),
                       Attr(EnvironmentCategory, "current-dateTime", DateTimeType, now)},
                      finder)

\* String(action).toLowerCase() for the action texts of the model
ToLowerCase(a) == IF a = "Train" THEN "train" ELSE a

getRequestXML(action, params, data, now, finder) ==
    IF action = "" THEN Undefined
    ELSE LET key == ToLowerCase(action)
         IN  CASE key \in {"task_approval", "task-approval", "taks_approval", "taskapproval"} ->
                      buildTaskApprovalRequest(params, data, now, finder)
               [] key \in {"membership_validation", "membership-validation",
                           "memebership_validation", "membershipvalidation"} ->
                      buildMembershipValidationRequest(params, data, now, finder)
               [] key \in {"train", "evaluate"} ->
                      buildMembershipTypeRequest(params, data, now, finder)
               [] OTHER -> Undefined

-----------------------------------------------------------------------------
(* Inputs of the model *)

LitFuture == DtLit("ok", 9000, FALSE, <<>>, "Z")
LitNoTz == DtLit("ok", 9000, FALSE, <<>>, "")
LitGarbage == DtLit("garbage", 0, FALSE, <<>>, "")
LitFraction == DtLit("ok", 9000, TRUE, <<5>>, "+01:00")
LitMonth13 == DtLit("invalid", 9000, FALSE, <<>>, "Z")
LitBareDot == DtLit("ok", 9000, TRUE, <<>>, "Z")
LitBadTz == DtLit("ok", 9000, FALSE, <<>>, "+0100")
LitNow == DtLit("ok", 5000, TRUE, <<1, 2, 3>>, "Z")

DtLits == {LitFuture, LitNoTz, LitGarbage, LitFraction, LitMonth13, LitBareDot, LitBadTz, LitNow}

ActionChoices ==
    {{}, {Attr(ActionCategory, "action", StringType, StrVal("train"))},
     {Attr(ActionCategory, "action", StringType, StrVal("task-authorization"))}}

TaskChoices ==
    {{}, {Attr(ResourceCategory, "task_id", StringType, StrVal("medical"))},
     {Attr(ResourceCategory, "task_id", StringType, StrVal("medical")),
      Attr(ResourceCategory, "task_id", StringType, StrVal("other"))}}

RoleChoices ==
    {{}, {Attr(SubjectCategory, "task_role", StringType, StrVal("participant"))},
     {Attr(ResourceCategory, "task_role", StringType, StrVal("participant"))}}

\* the instant of LitNow written with another offset, one second before it,
\* one second after it, and 400 microseconds after it
LitNowOffset == DtLit("ok", 8600, TRUE, <<1, 2, 3>>, "+01:00")
LitNowMinus1 == DtLit("ok", 4999, TRUE, <<1, 2, 3>>, "Z")
LitNowPlus1 == DtLit("ok", 5001, TRUE, <<1, 2, 3>>, "Z")
LitNowPlusMicros == DtLit("ok", 5000, TRUE, <<1, 2, 3, 4>>, "Z")

ExpiresChoices ==
    {{}} \cup {{Attr(ResourceCategory, "task_expires", DateTimeType, DtVal(l))} :
                l \in {LitFuture, LitNow, LitNowOffset, LitNowMinus1, LitNowPlus1,
                       LitNowPlusMicros}}

NowChoices == {{}, {Attr(EnvironmentCategory, "current-dateTime", DateTimeType, DtVal(LitNow))}}

\* Attributes that exercise the loader: dateTime literals of every shape, a
\* boolean that is none, a dataType the PDP does not know
LoaderChoices ==
    {{Attr(ResourceCategory, "task_expires", DateTimeType, DtVal(l))} : l \in DtLits}
    \cup {{Attr(SubjectCategory, "is_member_of_task", BooleanType, StrVal("maybe"))},
          {Attr(SubjectCategory, "is_member_of_task", BooleanType, StrVal("true"))},
          {Attr(SubjectCategory, "clearance", UnknownType, StrVal("7"))}}

\* The request strings given to Luas.evaluates
Requests ==
    {Req("ok", a \cup t \cup r, f) :
        a \in ActionChoices, t \in TaskChoices, r \in RoleChoices, f \in {"ok", "error"}}
    \cup {Req("ok", a \cup t \cup e \cup n, "ok") :
            a \in {{Attr(ActionCategory, "action", StringType, StrVal("task-authorization"))}},
            t \in {{Attr(ResourceCategory, "task_id", StringType, StrVal("medical"))}},
            e \in ExpiresChoices, n \in NowChoices}
    \cup {Req("ok", a \cup t \cup r \cup o, "ok") :
            a \in {{Attr(ActionCategory, "action", StringType, StrVal("train"))}},
            t \in {{Attr(ResourceCategory, "task_id", StringType, StrVal("medical"))}},
            r \in {{Attr(SubjectCategory, "task_role", StringType, StrVal("participant"))}},
            o \in LoaderChoices}
    \cup {Req("malformed", {}, "ok"), Req("wrongroot", {}, "ok")}

\* The requests of the parallel evaluations
ParRequests ==
    {Req("ok", {Attr(ActionCategory, "action", StringType, StrVal("train")),
                Attr(ResourceCategory, "task_id", StringType, StrVal("medical")),
                Attr(SubjectCategory, "task_role", StringType, StrVal("participant"))}, "ok"),
     Req("ok", {Attr(ResourceCategory, "task_id", StringType, StrVal("other"))}, "ok"),
     Req("ok", {Attr(ActionCategory, "action", StringType, StrVal("train"))}, "error")}

DenyReason == AttributeAssignment("deny-reason", "not authorised")

TrainPolicy ==
    PolicyFile("train.xml", TRUE, "train", "role",
               <<ObligationExpression("log-permit", "Permit", <<>>),
                 ObligationExpression("log-deny", "Deny", <<DenyReason>>)>>)

TrainAuditPolicy ==
    PolicyFile("train-audit.xml", TRUE, "train", "role",
               <<ObligationExpression("audit", "Permit", <<>>)>>)

TaskAuditPolicy ==
    PolicyFile("task-audit.xml", TRUE, "task-authorization", "role",
               <<ObligationExpression("audit", "Deny", <<DenyReason>>)>>)

TaskEqualPolicy ==
    PolicyFile("task-equal.xml", TRUE, "task-authorization", "dtEqual",
               <<ObligationExpression("log-deny", "Deny", <<DenyReason>>)>>)

TaskPolicy ==
    PolicyFile("task.xml", TRUE, "task-authorization", "dtGreater",
               <<ObligationExpression("log-deny", "Deny", <<DenyReason>>)>>)

BrokenPolicy == PolicyFile("broken.xml", FALSE, "train", "role", <<>>)

\* The values POLICY_FILES may have
PolicyConfigs ==
    {<<TrainPolicy>>, <<TaskAuditPolicy, TrainAuditPolicy>>, <<TaskEqualPolicy>>,
     <<TaskPolicy>>, <<TrainPolicy, BrokenPolicy>>}

\* The contents sample_data/nodes.json may have
NodeN1 == [is_member_of_task |-> StrVal("true"), task_membership_expires |-> DtVal(LitFuture),
           task_role |-> StrVal("participant")]
NodeBare == [is_member_of_task |-> Undefined, task_membership_expires |-> Undefined,
             task_role |-> Undefined]

PipDatas ==
    {[tasks |-> [medical |-> [task_expires |-> DtVal(LitFuture),
                              task_membership_expires |-> Undefined, task_role |-> Undefined,
                              nodes |-> [n1 |-> NodeN1, default |-> NodeBare]]]],
     [tasks |-> [default |-> [task_expires |-> Undefined,
                              task_membership_expires |-> Undefined, task_role |-> Undefined,
                              nodes |-> [default |-> NodeBare]]]],
     [tasks |-> [other |-> [task_expires |-> DtVal(LitFuture),
                            task_membership_expires |-> Undefined, task_role |-> Undefined,
                            nodes |-> [n2 |-> NodeN1]]]]}

\* The query strings of GET /getDecision
Queries ==
    [action : {"", "train", "Train", "evaluate", "task-authorization", "node-activation",
               "task-approval", "membership_validation"},
     task_id : {"", "medical"}, node_id : {"", "n1"}]

-----------------------------------------------------------------------------
(* pdp/app.js *)

\* A new object is identical to no object still referenced: the attribute
\* store of a new request context differs from the one the cache refers to.
FreshStore(c) == IF c.attributes.id = 1 THEN 2 ELSE 1

\* Luas.prototype.getPDPInstance(policyFiles): a policy file that fails to load
\* makes the constructor or pdp.init() throw; the catch block logs the error and
\* the function returns undefined.
getPDPInstance(pfs) ==
    IF \A i \in 1..Len(pfs) : pfs[i].loads THEN "instance" ELSE "undefined"

\* no HTTP answer was given by the last operation
NoAnswer == [status |-> 0, body |-> [none |-> TRUE]]

\* no HTTP request was answered by the last operation
NoRequest == [path |-> "none"]

\* no library function was called by the last operation
NoCall == [op |-> "none"]

Init ==
    /\ policyFiles \in PolicyConfigs
    /\ luas = "undefined"
    /\ server = "undefined"
    /\ initPc = "start"
    /\ loadFailed = FALSE
    /\ exited = FALSE
    /\ exitCode = 0
    /\ httpOut = NoAnswer
    /\ evalIn = Undefined
    /\ evalOut = Undefined
    /\ pdpRan = FALSE
    /\ pdpOut = Undefined
    /\ cache = EmptyCache
    /\ procs = <<>>
    /\ httpIn = NoRequest
    /\ inflight = 0
    /\ closing = FALSE
    /\ timerArmed = FALSE
    /\ signals = 0
    /\ valIn = NoCall
    /\ valOut = NoCall

\* async function init(): getPDPInstance never rejects, so the catch block with
\* process.exit(1) is never entered and app.listen always follows.
init ==
    /\ initPc = "start" /\ ~exited
    /\ luas' = getPDPInstance(policyFiles)
    /\ loadFailed' = (\E i \in 1..Len(policyFiles) : ~policyFiles[i].loads)
    /\ server' = "listening"
    /\ initPc' = "done"
    /\ UNCHANGED <<policyFiles, exited, exitCode, httpOut, evalIn, evalOut, pdpRan, pdpOut,
                   cache, procs, httpIn, shutVars, valVars>>

\* res.json({ decision }): JSON.stringify leaves out a field that is undefined
jsonDecision(decision) ==
    IF decision = Undefined THEN [none |-> TRUE]
    ELSE [decision |-> [kind |-> "object", value |-> decision]]

\* app.get('/getDecision', ...)
getDecision(q, data, now, finder) ==
    /\ server = "listening" /\ ~exited
    /\ IF luas = "undefined"
       THEN /\ httpOut' = [status |-> 503, body |-> [error |-> "PDP not initialized yet"]]
            /\ evalIn' = Undefined /\ evalOut' = Undefined
            /\ pdpRan' = FALSE /\ pdpOut' = Undefined
            /\ UNCHANGED cache
       ELSE \E requestXml \in {getRequestXML(q.action, q, data, now, finder)} :
                IF requestXml = Undefined
                THEN /\ httpOut' = [status |-> 400,
                                    body |-> [error |-> "Invalid or missing action or required params (task_id, node_id)"]]
                     /\ evalIn' = Undefined /\ evalOut' = Undefined
                     /\ pdpRan' = FALSE /\ pdpOut' = Undefined
                     /\ UNCHANGED cache
                ELSE \E r \in {evaluates(policyFiles, requestXml, FreshStore(cache), cache)} :
                         /\ httpOut' = [status |-> 200, body |-> jsonDecision(r.ret)]
                         /\ evalIn' = requestXml
                         /\ evalOut' = r.ret
                         /\ pdpRan' = r.ran
                         /\ pdpOut' = r.pdp
                         /\ cache' = r.cache
    /\ httpIn' = [path |-> "/getDecision", query |-> q, data |-> data]
    /\ UNCHANGED <<policyFiles, luas, server, initPc, loadFailed, exited, exitCode, procs,
                   valVars>>

\* app.get('/health', ...): const status = luas ? 'ready' : 'initializing'
healthStatusReady(l) == "ready"

healthStatus(l) == IF l = "instance" THEN "ready" ELSE "initializing"

\* luas ? StatusCodes.OK : StatusCodes.SERVICE_UNAVAILABLE
healthStatusCode(l) == IF l = "instance" THEN 200 ELSE 503

health ==
    /\ server = "listening" /\ ~exited
    /\ httpIn' = [path |-> "/health"]
    /\ httpOut' = [status |-> healthStatusCode(luas),
                   body |-> [status |-> healthStatus(luas), port |-> "PORT"]]
    /\ evalIn' = Undefined /\ evalOut' = Undefined
    /\ pdpRan' = FALSE /\ pdpOut' = Undefined
    /\ UNCHANGED <<policyFiles, luas, server, initPc, loadFailed, exited, exitCode, cache,
                   procs, valVars>>

Health == health /\ UNCHANGED shutVars

GetDecision ==
    \E q \in Queries, data \in PipDatas, now \in {DtVal(LitNow)}, finder \in {"ok", "error"} :
        getDecision(q, data, now, finder) /\ UNCHANGED shutVars

Next == init \/ GetDecision \/ Health

Spec == Init /\ [][Next]_vars

-----------------------------------------------------------------------------
(* Shutdown of pdp/app.js: gracefulShutdown, with the requests the server    *)
(* has accepted and not yet answered                                         *)

\* The query strings of the requests answered while the server shuts down
ShutQueries ==
    {[action |-> "train", task_id |-> "medical", node_id |-> "n1"],
     [action |-> "", task_id |-> "", node_id |-> ""]}

\* The server accepts a request: it is in flight until its handler has answered.
\* A server that server.close() was called on accepts no new connection.
Accept ==
    /\ server = "listening" /\ ~closing /\ ~exited
    /\ inflight < MaxInflight
    /\ inflight' = inflight + 1
    /\ UNCHANGED <<policyFiles, luas, server, initPc, loadFailed, exited, exitCode, httpOut,
                   evalIn, evalOut, pdpRan, pdpOut, cache, procs, httpIn, closing,
                   timerArmed, signals, valVars>>

\* The handler of a request in flight runs and answers it.
Answer ==
    /\ inflight > 0
    /\ inflight' = inflight - 1
    /\ \/ health
       \/ \E q \in ShutQueries, data \in PipDatas :
            "medical" \in DOMAIN data.tasks /\ getDecision(q, data, DtVal(LitNow), "ok")
    /\ UNCHANGED <<closing, timerArmed, signals>>

\* a server that never listened, or whose close callback has not run
closeDoneAtOnce(n) == TRUE

\* server.close(callback): the callback runs once every connection has ended
closeDone(n) == n = 0

\* process.on('SIGTERM' / 'SIGINT'): gracefulShutdown(signal)
gracefulShutdown ==
    /\ ~exited
    /\ signals < MaxSignals
    /\ signals' = signals + 1
    /\ IF server # "undefined"
       THEN /\ closing' = TRUE
            /\ timerArmed' = TRUE
            /\ UNCHANGED <<exited, exitCode>>
       ELSE /\ exited' = TRUE
            /\ exitCode' = 0
            /\ UNCHANGED <<closing, timerArmed>>
    /\ UNCHANGED <<policyFiles, luas, server, initPc, loadFailed, httpOut, evalIn, evalOut,
                   pdpRan, pdpOut, cache, procs, httpIn, inflight, valVars>>

\* lines 56-59: the callback of server.close
ServerClosed ==
    /\ closing /\ ~exited
    /\ closeDone(inflight)
    /\ closing' = FALSE
    /\ exited' = TRUE
    /\ exitCode' = 0
    /\ UNCHANGED <<policyFiles, luas, server, initPc, loadFailed, httpOut, evalIn, evalOut,
                   pdpRan, pdpOut, cache, procs, httpIn, inflight, timerArmed, signals,
                   valVars>>

\* lines 62-65: the callback of setTimeout(..., 10000)
ForceTimeout ==
    /\ timerArmed /\ ~exited
    /\ timerArmed' = FALSE
    /\ exited' = TRUE
    /\ exitCode' = 1
    /\ UNCHANGED <<policyFiles, luas, server, initPc, loadFailed, httpOut, evalIn, evalOut,
                   pdpRan, pdpOut, cache, procs, httpIn, inflight, closing, signals,
                   valVars>>

NextShut ==
    \/ init
    \/ Accept
    \/ Answer
    \/ gracefulShutdown
    \/ ServerClosed
    \/ ForceTimeout

\* The event loop runs every callback that is due: a pending timer fires, the
\* close callback runs once the connections have ended, an accepted request
\* is handled.
SpecShut ==
    /\ Init /\ [][NextShut]_vars
    /\ WF_vars(ForceTimeout) /\ WF_vars(ServerClosed) /\ WF_vars(Answer)

-----------------------------------------------------------------------------
(* A caller of the library: comformance/fl-tests/run_tests.js *)

\* loadPDP(): the instance getPDPInstance returns for policy files that load
InitLib ==
    /\ policyFiles \in {pfs \in PolicyConfigs : getPDPInstance(pfs) = "instance"}
    /\ luas = "instance"
    /\ server = "undefined"
    /\ initPc = "done"
    /\ loadFailed = FALSE
    /\ exited = FALSE
    /\ exitCode = 0
    /\ httpOut = NoAnswer
    /\ evalIn = Undefined
    /\ evalOut = Undefined
    /\ pdpRan = FALSE
    /\ pdpOut = Undefined
    /\ cache = EmptyCache
    /\ procs = <<>>
    /\ httpIn = NoRequest
    /\ inflight = 0
    /\ closing = FALSE
    /\ timerArmed = FALSE
    /\ signals = 0
    /\ valIn = NoCall
    /\ valOut = NoCall

\* run_tests.js line 45: out = await luas.evaluates(requestXml)
Evaluates ==
    \E req \in Requests :
        /\ luas = "instance" /\ ~exited
        /\ \E r \in {evaluates(policyFiles, req, FreshStore(cache), cache)} :
               /\ evalIn' = req
               /\ evalOut' = r.ret
               /\ pdpRan' = r.ran
               /\ pdpOut' = r.pdp
               /\ cache' = r.cache
        /\ UNCHANGED <<policyFiles, luas, server, initPc, loadFailed, exited, exitCode,
                       httpOut, procs, httpIn, shutVars, valVars>>

NextLib == Evaluates

SpecLib == InitLib /\ [][NextLib]_vars

-----------------------------------------------------------------------------
(* Evaluations in parallel on one PDP instance: the requests arrive one      *)
(* after the other and their designator evaluations interleave, all of them  *)
(* going through the one module-level cache of part_000                      *)

Procs == 1..MaxProc

IdleProc ==
    [st |-> "idle", req |-> Undefined, context |-> Undefined, outs |-> <<>>,
     lookeds |-> <<>>, resp |-> Undefined]

InitPar ==
    /\ policyFiles = <<TrainPolicy>>
    /\ luas = "instance"
    /\ server = "undefined"
    /\ initPc = "done"
    /\ loadFailed = FALSE
    /\ exited = FALSE
    /\ exitCode = 0
    /\ httpOut = NoAnswer
    /\ evalIn = Undefined
    /\ evalOut = Undefined
    /\ pdpRan = FALSE
    /\ pdpOut = Undefined
    /\ cache = EmptyCache
    /\ procs = [p \in Procs |-> IdleProc]
    /\ httpIn = NoRequest
    /\ inflight = 0
    /\ closing = FALSE
    /\ timerArmed = FALSE
    /\ signals = 0
    /\ valIn = NoCall
    /\ valOut = NoCall

\* evaluateCallBack lines 82-93 for the p-th request: the request is loaded
\* into a context of its own, or the evaluation ends with the loader's failure.
Arrive(p, req) ==
    /\ procs[p].st = "idle"
    /\ p > 1 => procs[p - 1].st # "idle"
    /\ \E request \in {getRequestCtxWithRequest(req, p)} :
         procs' = [procs EXCEPT ![p] =
                     IF request.ok
                     THEN [IdleProc EXCEPT !.st = "running", !.req = req, !.context = request]
                     ELSE [IdleProc EXCEPT !.st = "done", !.req = req,
                                           !.resp = parseFailureResponse(request.message)]]
    /\ UNCHANGED <<policyFiles, luas, server, initPc, loadFailed, exited, exitCode, httpOut,
                   evalIn, evalOut, pdpRan, pdpOut, cache, httpIn, shutVars, valVars>>

\* The next AttributeDesignator.evaluate of the p-th evaluation; after the last
\* one the evaluation returns (evaluates lines 72-79 on evaluateCallBack 95-118).
Step(p) ==
    /\ procs[p].st = "running"
    /\ \E ds \in {allDesignators(policyFiles)} :
       \E d \in {ds[Len(procs[p].outs) + 1]} :
       \E e \in {designatorEvaluate(d, procs[p].context, cache)} :
       \E outs \in {Append(procs[p].outs, e.out)} :
         /\ cache' = e.cache
         /\ procs' = [procs EXCEPT ![p] =
                        [@ EXCEPT !.outs = outs,
                                  !.lookeds = Append(@, e.looked),
                                  !.st = IF Len(outs) = Len(ds) THEN "done" ELSE "running",
                                  !.resp = IF Len(outs) = Len(ds)
                                           THEN respond(policyFiles, outs).ret
                                           ELSE Undefined]]
    /\ UNCHANGED <<policyFiles, luas, server, initPc, loadFailed, exited, exitCode, httpOut,
                   evalIn, evalOut, pdpRan, pdpOut, httpIn, shutVars, valVars>>

NextPar ==
    \/ \E p \in Procs, req \in ParRequests : Arrive(p, req)
    \/ \E p \in Procs : Step(p)

SpecPar == InitPar /\ [][NextPar]_vars

\* The same requests one after another, in the order of their arrival: the
\* cache after the first p of them, and the response of the p-th.
RECURSIVE seqCache(_)
seqCache(p) ==
    IF p = 0 THEN EmptyCache
    ELSE evaluates(policyFiles, procs[p].req, p, seqCache(p - 1)).cache

seqResponse(p) == evaluates(policyFiles, procs[p].req, p, seqCache(p - 1)).ret

-----------------------------------------------------------------------------
(* Calls of the library's functions on their own: the loader of an           *)
(* <Attributes> group (pdp/xacml/xacml3/attributes.js)                        *)

\* An <Attributes> element: the name of its root node, its Category, the
\* firstChild of each of its <Content> children in document order ("null" for
\* an empty <Content/>), and its <Attribute> children.
AttributesXml(root, category, contents, attributes) ==
    [root |-> root, category |-> category, contents |-> contents, attributes |-> attributes]

\* lines 51-63: the value of `content` after the loop over the first n
\* <Content> children; "threw" when a <Content> is met while content != null
RECURSIVE contentAfter(_, _)
contentAfter(contents, n) ==
    IF n = 0 THEN "null"
    ELSE LET before == contentAfter(contents, n - 1)
         IN  IF before = "threw" \/ before # "null" THEN "threw" ELSE contents[n]

\* Attributes.prototype.getInstance(xmlString)
AttributesGetInstance(x) ==
    IF x.root # "Attributes"
    THEN [ok |-> FALSE, message |-> "Attributes object cannot be created"]
    ELSE LET content == contentAfter(x.contents, Len(x.contents))
         IN  IF content = "threw"
             THEN [ok |-> FALSE, message |-> "Too many content elements are defined."]
             ELSE IF content # "null"
             THEN [ok |-> FALSE, message |-> "need an implementation"]
             ELSE [ok |-> TRUE,
                   attr |-> [category |-> x.category, content |-> content,
                             attributes |-> x.attributes, id |-> "null"]]

\* Attributes.prototype.getContent
getContent(a) == a.content

ContentChoices == {"null", "<record/>"}

AttributesInputs ==
    {AttributesXml(root, category, contents, attributes) :
        root \in {"Attributes", "Attribute"},
        category \in {ResourceCategory, SubjectCategory},
        contents \in {<<>>} \cup {<<a>> : a \in ContentChoices}
                        \cup {<<a, b>> : a \in ContentChoices, b \in ContentChoices},
        attributes \in {<<>>, <<"task_id">>}}

InitVal ==
    /\ policyFiles = <<TrainPolicy>>
    /\ luas = "instance"
    /\ server = "undefined"
    /\ initPc = "done"
    /\ loadFailed = FALSE
    /\ exited = FALSE
    /\ exitCode = 0
    /\ httpOut = NoAnswer
    /\ evalIn = Undefined
    /\ evalOut = Undefined
    /\ pdpRan = FALSE
    /\ pdpOut = Undefined
    /\ cache = EmptyCache
    /\ procs = <<>>
    /\ httpIn = NoRequest
    /\ inflight = 0
    /\ closing = FALSE
    /\ timerArmed = FALSE
    /\ signals = 0
    /\ valIn = NoCall
    /\ valOut = NoCall

\* what a call of a library function leaves alone
notVal == <<policyFiles, luas, server, initPc, loadFailed, exited, exitCode, httpOut,
            evalIn, evalOut, pdpRan, pdpOut, cache, procs, httpIn, shutVars>>

LoadAttributes ==
    \E x \in AttributesInputs :
        /\ valIn' = [op |-> "Attributes.getInstance", x |-> x]
        /\ valOut' = AttributesGetInstance(x)
        /\ UNCHANGED notVal

\* The dateTime texts given to DateTimeAttribute.getInstance on its own
LitHalf == DtLit("ok", 9000, TRUE, <<5>>, "Z")
LitNanos == DtLit("ok", 9000, TRUE, <<1, 2, 3, 4, 5, 6, 7, 8, 9>>, "Z")
LitSubMilli == DtLit("ok", 9000, TRUE, <<0, 0, 0, 0, 0, 0, 5>>, "Z")
LitTenDigits == DtLit("ok", 9000, TRUE, <<1, 2, 3, 4, 5, 6, 7, 8, 9, 9>>, "Z")
LitZeroFrac == DtLit("ok", 9000, TRUE, <<0>>, "Z")
LitSameInstant == DtLit("ok", 12600, FALSE, <<>>, "+01:00")
LitEarlier == DtLit("ok", 8999, FALSE, <<>>, "Z")

ParseLits ==
    DtLits \cup {LitHalf, LitNanos, LitSubMilli, LitTenDigits, LitZeroFrac, LitSameInstant,
                 LitEarlier}

ParseDateTime ==
    \E l \in ParseLits :
        /\ valIn' = [op |-> "DateTimeAttribute.getInstance", l |-> l]
        /\ valOut' = DateTimeGetInstance(l)
        /\ UNCHANGED notVal

\* a.equals(b) for two values getInstance has returned
CompareDateTimes ==
    \E la \in ParseLits, lb \in ParseLits :
        /\ DateTimeGetInstance(la).ok /\ DateTimeGetInstance(lb).ok
        /\ valIn' = [op |-> "DateTimeAttribute.equals", a |-> la, b |-> lb]
        /\ valOut' = DateTimeEquals(DateTimeGetInstance(la).attr, DateTimeGetInstance(lb).attr)
        /\ UNCHANGED notVal

-----------------------------------------------------------------------------
(* The audit log: logDecision (unnamed/part_004 lines 1-149) and             *)
(* pdp/scripts/verify_logs.js                                                 *)

\* JSON null
Null == "null"

\* no JWS token (jws: null in the log entry)
NoToken == [none |-> TRUE]

\* no signed payload (signedPayload: null in the log entry)
NoPayload == [none |-> TRUE]

\* An evaluation context as logDecision reads it: whether it has a requestCtx,
\* the first values safeGetFirstAttributeValue finds for subject-id,
\* resource-id and action-id (Null when none), and its policyReferences
\* (Undefined when absent, else a list)
EvaluationCtx(hasRequestCtx, subjectId, resourceId, actionId, policyReferences) ==
    [hasRequestCtx |-> hasRequestCtx, subjectId |-> subjectId, resourceId |-> resourceId,
     actionId |-> actionId, policyReferences |-> policyReferences]

\* a policy reference: an object with getId(), or a plain value
PolicyRef(hasGetId, id) == [hasGetId |-> hasGetId, id |-> id]

\* policyReferencesToArray(policyReferences), for a list
policyReferencesToArray(policyReferences) ==
    IF policyReferences = <<>> THEN <<>>
    ELSE [i \in 1..Len(policyReferences) |->
            IF policyReferences[i].hasGetId THEN [id |-> policyReferences[i].id]
            ELSE policyReferences[i]]

\* extractBasicFields(evaluationCtx): {} without a requestCtx
extractBasicFields(ctx) ==
    IF ~ctx.hasRequestCtx
    THEN [subjectId |-> Null, resourceId |-> Null, actionId |-> Null]
    ELSE [subjectId |-> ctx.subjectId, resourceId |-> ctx.resourceId,
          actionId |-> ctx.actionId]

\* signPayloadCompact with the signing switched off
signPayloadNever(payloadStr, privateKey, alg) == NoToken

\* signPayloadCompact(payloadStr): null without a signing key, else the compact
\* JWS of the payload under signingAlg and the private key
signPayloadCompact(payloadStr, privateKey, alg) ==
    IF privateKey = Null THEN NoToken
    ELSE [alg |-> alg, payload |-> payloadStr, signer |-> privateKey]

\* new Date().toISOString()
IsoNow == "2026-11-02T00:00:00.000Z"

\* logDecision(decision, evaluationCtx, extras): the entry given to logger.info
logDecision(decision, ctx, extras, privateKey, alg) ==
    LET base == extractBasicFields(ctx)
        policyRefs == IF ctx.policyReferences = Undefined THEN <<>>
                      ELSE policyReferencesToArray(ctx.policyReferences)
        payloadObj == [timestamp |-> IsoNow, decision |-> decision,
                       subject |-> base.subjectId, resource |-> base.resourceId,
                       action |-> base.actionId, policyReferences |-> policyRefs,
                       extras |-> extras]
        payloadStr == JsonStringify([pdpAudit |-> payloadObj])
        jwsCompact == signPayloadCompact(payloadStr, privateKey, alg)
    IN  [pdpAudit |-> payloadObj, jws |-> jwsCompact,
         signedPayload |-> IF jwsCompact # NoToken THEN payloadStr ELSE NoPayload]

\* the texts Date.parse reads as a date
ParseableTimestamps == {IsoNow}

\* validateSchema(pdpAudit), for a pdpAudit whose policyReferences is a list
validateSchema(pdpAudit) ==
    /\ {"timestamp", "decision", "subject", "resource", "action", "policyReferences"}
          \subseteq DOMAIN pdpAudit
    /\ pdpAudit.timestamp \in ParseableTimestamps

\* jws.verify(token, 'ES256', pubKeyPem): the token's algorithm is the one
\* asked for and its signature is one of the key pair of pubKeyPem
jwsVerify(token, alg, pubKeyPem) == token.alg = alg /\ token.signer = pubKeyPem

\* lines 148-197 of processFile for one log line that has a pdpAudit: the
\* counter the line adds to
classify(entry, pubKeyPem) ==
    IF entry.jws = NoToken THEN "unsigned"
    ELSE IF pubKeyPem = Null THEN "signedInvalid"
    ELSE IF ~jwsVerify(entry.jws, "ES256", pubKeyPem) THEN "signedInvalid"
    ELSE IF entry.signedPayload # NoPayload
    THEN IF entry.jws.payload # entry.signedPayload THEN "signedInvalid" ELSE "signedValid"
    ELSE IF entry.jws.payload.json.pdpAudit # entry.pdpAudit THEN "signedInvalid"
    ELSE "signedValid"

\* verify_logs on a file of one line: the line's counters and process.exitCode
verifyLogs(entry, pubKeyPem) ==
    LET schemaInvalid == ~validateSchema(entry.pdpAudit)
        class == classify(entry, pubKeyPem)
    IN  [class |-> class, schemaInvalid |-> schemaInvalid,
         exitCode |-> IF class = "signedInvalid" \/ schemaInvalid THEN 3 ELSE 0]

\* What is done to a log line between logDecision and verify_logs: nothing;
\* the decision in pdpAudit is changed; the timestamp in pdpAudit is made
\* unreadable; the decision is changed and signedPayload removed
Tampers == {"none", "decision", "timestamp", "decision-no-payload"}

\* pdpAudit with another decision
otherDecision(pdpAudit) ==
    [timestamp |-> pdpAudit.timestamp,
     decision |-> IF pdpAudit.decision = "Permit" THEN "Deny" ELSE "Permit",
     subject |-> pdpAudit.subject, resource |-> pdpAudit.resource,
     action |-> pdpAudit.action, policyReferences |-> pdpAudit.policyReferences,
     extras |-> pdpAudit.extras]

\* pdpAudit with a timestamp that is no date
otherTimestamp(pdpAudit) ==
    [timestamp |-> "yesterday", decision |-> pdpAudit.decision,
     subject |-> pdpAudit.subject, resource |-> pdpAudit.resource,
     action |-> pdpAudit.action, policyReferences |-> pdpAudit.policyReferences,
     extras |-> pdpAudit.extras]

Tamper(entry, t) ==
    CASE t = "decision" ->
            [pdpAudit |-> otherDecision(entry.pdpAudit), jws |-> entry.jws,
             signedPayload |-> entry.signedPayload]
      [] t = "timestamp" ->
            [pdpAudit |-> otherTimestamp(entry.pdpAudit), jws |-> entry.jws,
             signedPayload |-> entry.signedPayload]
      [] t = "decision-no-payload" ->
            [pdpAudit |-> otherDecision(entry.pdpAudit), jws |-> entry.jws,
             signedPayload |-> NoPayload]
      [] OTHER -> entry

EvaluationCtxs ==
    {EvaluationCtx(FALSE, Null, Null, Null, Undefined),
     EvaluationCtx(TRUE, "node-1", "medical", "train", <<>>),
     EvaluationCtx(TRUE, Null, "medical", Null,
                   <<PolicyRef(TRUE, "policy-1"), PolicyRef(FALSE, "policy-2")>>)}

\* certs/pdp_sign_key.pem, or none
PrivateKeys == {Null, "key-1"}

\* certs/pdp_sign_pub.pem: the public key of key-1, of another pair, or none
PublicKeys == {Null, "key-1", "key-2"}

\* process.env.SIGNING_ALG || 'ES256'
SigningAlgs == {"ES256", "RS256"}

\* logDecision writes an entry and verify_logs reads the line
LogAndVerify ==
    \E decision \in {"Permit", "Deny"}, ctx \in EvaluationCtxs, privateKey \in PrivateKeys,
       alg \in SigningAlgs, t \in Tampers, pubKeyPem \in PublicKeys :
        /\ valIn' = [op |-> "verify_logs",
                     written |-> logDecision(decision, ctx, Null, privateKey, alg),
                     tamper |-> t,
                     entry |-> Tamper(logDecision(decision, ctx, Null, privateKey, alg), t),
                     privateKey |-> privateKey, alg |-> alg, pubKeyPem |-> pubKeyPem]
        /\ valOut' = verifyLogs(Tamper(logDecision(decision, ctx, Null, privateKey, alg), t),
                                pubKeyPem)
        /\ UNCHANGED notVal

NextVal ==
    \/ LoadAttributes
    \/ ParseDateTime
    \/ CompareDateTimes
    \/ LogAndVerify

SpecVal == InitVal /\ [][NextVal]_vars

-----------------------------------------------------------------------------
(* Combining algorithms, each as the loop over the children's decisions *)

\* the largest number of children combined
MaxChildren == 3

\* what a child (rule, policy or policy set) evaluates to
ChildDecisions ==
    {"Permit", "Deny", "NotApplicable", "IndeterminateD", "IndeterminateP", "IndeterminateDP"}

\* the lists of at most n children's decisions
ChildLists(n) == UNION {[1..k -> ChildDecisions] : k \in 0..n}

\* the orders in which n children can be taken
Orders(n) == {f \in [1..n -> 1..n] : \A i, j \in 1..n : f[i] = f[j] => i = j}

\* the children taken in the order f
Permuted(children, f) == [i \in 1..Len(children) |-> children[f[i]]]

\* a loop in which a Deny ends the evaluation only when it comes first, and
\* a Permit seen on the way outweighs a later Deny
RECURSIVE denyFirstOnlyLoop(_, _, _)
denyFirstOnlyLoop(children, i, seen) ==
    IF i > Len(children)
    THEN IF "Permit" \in seen THEN "Permit"
         ELSE IF "Deny" \in seen THEN "Deny"
         ELSE "NotApplicable"
    ELSE IF children[i] = "Deny" /\ seen = {} THEN "Deny"
    ELSE denyFirstOnlyLoop(children, i + 1, seen \cup {children[i]})

\* deny-overrides: a Deny ends the loop; at its end Indeterminate{D} or {DP},
\* then Permit, then Indeterminate{P}, else NotApplicable
RECURSIVE denyOverridesLoop(_, _, _)
denyOverridesLoop(children, i, seen) ==
    IF i > Len(children)
    THEN IF "IndeterminateD" \in seen \/ "IndeterminateDP" \in seen THEN "IndeterminateD"
         ELSE IF "Permit" \in seen THEN "Permit"
         ELSE IF "IndeterminateP" \in seen THEN "IndeterminateP"
         ELSE "NotApplicable"
    ELSE IF children[i] = "Deny" THEN "Deny"
    ELSE denyOverridesLoop(children, i + 1, seen \cup {children[i]})

\* permit-overrides: symmetric to deny-overrides
RECURSIVE permitOverridesLoop(_, _, _)
permitOverridesLoop(children, i, seen) ==
    IF i > Len(children)
    THEN IF "IndeterminateP" \in seen \/ "IndeterminateDP" \in seen THEN "IndeterminateP"
         ELSE IF "Deny" \in seen THEN "Deny"
         ELSE IF "IndeterminateD" \in seen THEN "IndeterminateD"
         ELSE "NotApplicable"
    ELSE IF children[i] = "Permit" THEN "Permit"
    ELSE permitOverridesLoop(children, i + 1, seen \cup {children[i]})

\* first-applicable: the first child's result that is not NotApplicable
RECURSIVE firstApplicableLoop(_, _)
firstApplicableLoop(children, i) ==
    IF i > Len(children) THEN "NotApplicable"
    ELSE IF children[i] # "NotApplicable" THEN children[i]
    ELSE firstApplicableLoop(children, i + 1)

\* only-one-applicable: the result of the one applicable child; a second
\* applicable child makes it Indeterminate
RECURSIVE onlyOneApplicableLoop(_, _, _)
onlyOneApplicableLoop(children, i, selected) ==
    IF i > Len(children) THEN selected
    ELSE IF children[i] = "NotApplicable" THEN onlyOneApplicableLoop(children, i + 1, selected)
    ELSE IF selected # "NotApplicable" THEN "IndeterminateDP"
    ELSE onlyOneApplicableLoop(children, i + 1, children[i])

\* an "unless" loop that hands the last child's Indeterminate on
RECURSIVE unlessLoopLeaky(_, _, _, _)
unlessLoopLeaky(children, i, wins, otherwise) ==
    IF i > Len(children) THEN otherwise
    ELSE IF children[i] = wins THEN wins
    ELSE IF i = Len(children) /\ children[i] \in {"IndeterminateD", "IndeterminateP",
                                                   "IndeterminateDP"}
    THEN children[i]
    ELSE unlessLoopLeaky(children, i + 1, wins, otherwise)

\* deny-unless-permit (wins = Permit, otherwise = Deny) and permit-unless-deny
\* (wins = Deny, otherwise = Permit)
RECURSIVE unlessLoop(_, _, _, _)
unlessLoop(children, i, wins, otherwise) ==
    IF i > Len(children) THEN otherwise
    ELSE IF children[i] = wins THEN wins
    ELSE unlessLoop(children, i + 1, wins, otherwise)

CombiningAlgs ==
    {"deny-overrides", "permit-overrides", "first-applicable", "only-one-applicable",
     "deny-unless-permit", "permit-unless-deny"}

\* the combined decision of the children in the order given
combine(alg, children) ==
    CASE alg = "deny-overrides" -> denyOverridesLoop(children, 1, {})
      [] alg = "permit-overrides" -> permitOverridesLoop(children, 1, {})
      [] alg = "first-applicable" -> firstApplicableLoop(children, 1)
      [] alg = "only-one-applicable" -> onlyOneApplicableLoop(children, 1, "NotApplicable")
      [] alg = "deny-unless-permit" -> unlessLoop(children, 1, "Permit", "Deny")
      [] alg = "permit-unless-deny" -> unlessLoop(children, 1, "Deny", "Permit")

\* what a rule with effect Deny can evaluate to
DenyRuleResults == {"Deny", "NotApplicable", "IndeterminateD"}

\* The children are combined in document order and in another order
Combine ==
    /\ valIn = NoCall
    /\ \E alg \in CombiningAlgs, children \in ChildLists(MaxChildren) :
        \E f \in Orders(Len(children)) :
            /\ valIn' = [op |-> "combine", alg |-> alg, children |-> children, order |-> f]
            /\ valOut' = [inOrder |-> combine(alg, children),
                          permuted |-> combine(alg, Permuted(children, f))]
            /\ UNCHANGED notVal

\* A rule with effect Deny is added to a policy whose rules are combined by
\* deny-overrides
AddDenyRule ==
    /\ valIn = NoCall
    /\ \E children \in ChildLists(MaxChildren), added \in DenyRuleResults,
          at \in 1..(MaxChildren + 1) :
        /\ at <= Len(children) + 1
        /\ valIn' = [op |-> "add-deny-rule", children |-> children, added |-> added, at |-> at]
        /\ valOut' = [before |-> combine("deny-overrides", children),
                      after |-> combine("deny-overrides",
                                        SubSeq(children, 1, at - 1) \o <<added>>
                                            \o SubSeq(children, at, Len(children)))]
        /\ UNCHANGED notVal

\* An obligation or advice expression with one attribute assignment whose
\* expression is an attribute designator
NotifyExpression(oid, fulfillOn, mustBePresent) ==
    [obligationId |-> oid, fulfillOn |-> fulfillOn,
     designator |-> Designator(StringType, "contact", mustBePresent, SubjectCategory)]

\* what the evaluation context has for the designator: no value, one value, or
\* a finder module that fails
ContactLookups ==
    {[indeterminate |-> FALSE, attributeValues |-> {}],
     [indeterminate |-> FALSE, attributeValues |-> {StrVal("ops@example.org")}],
     [indeterminate |-> TRUE,
      status |-> [code |-> <<"processing-error">>, message |-> "finder module failed",
                  detail |-> <<>>]]}

\* the expressions of an element that are due for its decision
dueExpressions(decision, expressions) ==
    SelectSeq(expressions, LAMBDA o : o.fulfillOn = decision)

\* The decision and obligations an element (rule, policy, policy set) emits:
\* each due expression is evaluated; if one is Indeterminate the decision is
\* promoted to the Indeterminate flavour of what would have been emitted and
\* no obligation goes out.
emit(decision, expressions, looked) ==
    LET due == dueExpressions(decision, expressions)
        failed == \E i \in 1..Len(due) : designatorResult(due[i].designator, looked).indeterminate
    IN  IF decision \notin {"Permit", "Deny"} THEN [decision |-> decision, obligations |-> <<>>]
        ELSE IF failed
        THEN [decision |-> IF decision = "Deny" THEN "IndeterminateD" ELSE "IndeterminateP",
              obligations |-> <<>>]
        ELSE [decision |-> decision, obligations |-> due]

\* the lists of expressions an element carries
ExpressionLists ==
    LET one == {NotifyExpression(oid, f, m) :
                  oid \in {"notify", "audit"}, f \in {"Permit", "Deny"}, m \in BOOLEAN}
    IN  {<<>>} \cup {<<a>> : a \in one}
        \cup {<<a, b>> : a \in {o \in one : o.obligationId = "notify"},
                         b \in {o \in one : o.obligationId = "audit"}}

\* An element has come to a decision and evaluates its obligation expressions
EmitDecision ==
    /\ valIn = NoCall
    /\ \E decision \in {"Permit", "Deny", "NotApplicable"}, expressions \in ExpressionLists,
          looked \in ContactLookups :
        /\ valIn' = [op |-> "emit", decision |-> decision, expressions |-> expressions,
                     looked |-> looked]
        /\ valOut' = emit(decision, expressions, looked)
        /\ UNCHANGED notVal

-----------------------------------------------------------------------------
(* Boolean functions: NotFunction (unnamed/part_001), and, or *)

\* JavaScript's !v for the values true, false and null
jsNot(v) == IF v = "true" THEN "false" ELSE "true"

\* EvaluationResult.prototype.getInstance(boolean)
EvaluationResultGetInstance(b) == [indeterminate |-> FALSE, value |-> b]

\* an Indeterminate result, as AttributeDesignator.prototype.evaluate builds it
IndeterminateResult == [indeterminate |-> TRUE, value |-> "null"]

\* the results an argument expression evaluates to
ArgResults ==
    {EvaluationResultGetInstance("true"), EvaluationResultGetInstance("false"),
     IndeterminateResult}

\* an evaluateApply that negates whatever its argument gave
evaluateApplyBlind(value) ==
    IF Len(value) = 0 THEN [threw |-> TRUE]
    ELSE [threw |-> FALSE, result |-> EvaluationResultGetInstance(jsNot(value[1].value))]

\* NotFunction.prototype.evaluateApply(value, context): value is the list of
\* argument expressions, each given by what its evaluate(context) returns;
\* value[0] of an empty list is undefined and the call on it throws
evaluateApply(value) ==
    IF Len(value) = 0 THEN [threw |-> TRUE]
    ELSE IF value[1].indeterminate THEN [threw |-> FALSE, result |-> value[1]]
    ELSE [threw |-> FALSE, result |-> EvaluationResultGetInstance(jsNot(value[1].value))]

\* NotFunction.prototype.evaluate(inputs, context): inputs is an array of
\* expressions, an evaluation result, or a plain boolean
NotEvaluate(inputs) ==
    CASE inputs.kind = "array" -> evaluateApply(inputs.exprs)
      [] inputs.kind = "result" ->
            IF inputs.result.indeterminate THEN [threw |-> FALSE, result |-> inputs.result]
            ELSE [threw |-> FALSE,
                  result |-> EvaluationResultGetInstance(jsNot(inputs.result.value))]
      [] OTHER -> [threw |-> FALSE, result |-> EvaluationResultGetInstance(jsNot(inputs.v))]

NotInputs ==
    {[kind |-> "array", exprs |-> <<r>>] : r \in ArgResults}
    \cup {[kind |-> "array", exprs |-> <<>>]}
    \cup {[kind |-> "result", result |-> r] : r \in ArgResults}
    \cup {[kind |-> "raw", v |-> b] : b \in {"true", "false"}}

\* not is applied once, and then again to its own result
ApplyNot ==
    /\ valIn = NoCall
    /\ \E inputs \in NotInputs :
        /\ valIn' = [op |-> "not", inputs |-> inputs]
        /\ valOut' = [once |-> NotEvaluate(inputs),
                      twice |-> IF NotEvaluate(inputs).threw THEN [threw |-> TRUE]
                                ELSE NotEvaluate([kind |-> "result",
                                                  result |-> NotEvaluate(inputs).result])]
        /\ UNCHANGED notVal

\* the largest number of arguments given to and / or
MaxArgs == 3

\* a loop that gives up at the first Indeterminate argument
RECURSIVE shortCircuitLoopEager(_, _, _, _)
shortCircuitLoopEager(args, i, determining, pending) ==
    IF i > Len(args) THEN EvaluationResultGetInstance(jsNot(determining))
    ELSE IF args[i].indeterminate THEN args[i]
    ELSE IF args[i].value = determining THEN EvaluationResultGetInstance(determining)
    ELSE shortCircuitLoopEager(args, i + 1, determining, pending)

\* The loop of and (determining = false) and or (determining = true): the
\* arguments are evaluated in order; the determining value ends the loop and
\* the remaining arguments are skipped; an Indeterminate argument is kept in
\* mind (pending) and decides only if no determining value turns up.
RECURSIVE shortCircuitLoop(_, _, _, _)
shortCircuitLoop(args, i, determining, pending) ==
    IF i > Len(args)
    THEN IF pending THEN IndeterminateResult
         ELSE EvaluationResultGetInstance(jsNot(determining))
    ELSE IF args[i].indeterminate THEN shortCircuitLoop(args, i + 1, determining, TRUE)
    ELSE IF args[i].value = determining THEN EvaluationResultGetInstance(determining)
    ELSE shortCircuitLoop(args, i + 1, determining, pending)

\* the functions and and or applied to the results of their arguments
andEvaluate(args) == shortCircuitLoop(args, 1, "false", FALSE)
orEvaluate(args) == shortCircuitLoop(args, 1, "true", FALSE)

\* and / or is applied to up to MaxArgs arguments
ApplyAndOr ==
    /\ valIn = NoCall
    /\ \E fn \in {"and", "or"}, args \in UNION {[1..k -> ArgResults] : k \in 0..MaxArgs} :
        /\ valIn' = [op |-> "and-or", fn |-> fn, args |-> args]
        /\ valOut' = IF fn = "and" THEN andEvaluate(args) ELSE orEvaluate(args)
        /\ UNCHANGED notVal

-----------------------------------------------------------------------------
(* The Bloom pre-filter: PolicyFilter.getInstance(true) of pdp/app.js line   *)
(* 17, as pdp/README.md lines 135-143 describe it                            *)

\* the number of bits of the filter
BloomBits == 3

\* the number a string hashes from
StringCode(s) ==
    CASE s = "train" -> 1
      [] s = "task-authorization" -> 2
      [] s = "medical" -> 3
      [] s = "other" -> 4
      [] s = "participant" -> 5
      [] s = "action" -> 6
      [] s = "task_id" -> 7
      [] s = "task_role" -> 8
      [] s = "task_expires" -> 9
      [] s = ActionCategory -> 10
      [] s = ResourceCategory -> 12
      [] s = SubjectCategory -> 15
      [] OTHER -> 0

LiteralCode(v) == IF "s" \in DOMAIN v THEN StringCode(v.s) ELSE v.lit.secs

\* the bit positions of the key (category, id, literal) under the two hashes
bloomPositions(category, id, literal) ==
    LET code == StringCode(category) + StringCode(id) + LiteralCode(literal)
    IN  {code % BloomBits, (code \div BloomBits) % BloomBits}

\* the bits the Request's attribute values set
requestBits(req) ==
    UNION {bloomPositions(a.category, a.id, a.value) : a \in req.attrs}

\* the keys harvested from every Match of the policy's Targets
targetKeys(pf) == {<<ActionCategory, "action", StrVal(pf.action)>>}

\* a query that takes the filter for the fingerprint of one key
bloomQueryExact(bits, positions) == positions = bits

\* a query: a hit (TRUE) is a maybe, a miss says the key is not in the request
bloomQuery(bits, positions) == positions \subseteq bits

\* the policies left to evaluate: with the filter enabled a policy goes when
\* one of its Target keys misses
policyFilter(pfs, req, enabled) ==
    IF ~enabled THEN pfs
    ELSE SelectSeq(pfs, LAMBDA pf :
            \A k \in targetKeys(pf) :
                bloomQuery(requestBits(req), bloomPositions(k[1], k[2], k[3])))

\* Luas.evaluates with the pre-filter before the PDP: the response
filteredEvaluates(pfs, req, storeId, c, enabled) ==
    LET request == getRequestCtxWithRequest(req, storeId)
        kept == policyFilter(pfs, req, enabled)
        run == runDesignators(allDesignators(kept), request, c)
        responseCtx == pdpEvaluate(kept, run.outs)
    IN  IF ~request.ok THEN parseFailureResponse(request.message)
        ELSE IF responseCtx.threw THEN Undefined
        ELSE buildResponse(pfs, responseCtx)

\* the names of the policies with the given Target result on the request
targetsWith(pfs, req, storeId, c, result) ==
    LET request == getRequestCtxWithRequest(req, storeId)
        outs == runDesignators(allDesignators(pfs), request, c).outs
    IN  IF ~request.ok THEN {}
        ELSE {pfs[i].name : i \in {j \in 1..Len(pfs) :
                                    targetResult(pfs[j], policyOuts(pfs, j, outs)) = result}}

\* One request evaluated with the filter enabled and with it disabled
PreFilter ==
    /\ valIn = NoCall
    /\ \E pfs \in {p \in PolicyConfigs : getPDPInstance(p) = "instance"}, req \in Requests :
        LET kept == policyFilter(pfs, req, TRUE)
        IN  /\ valIn' = [op |-> "filter", policyFiles |-> pfs, request |-> req]
            /\ valOut' = [enabled |-> filteredEvaluates(pfs, req, 1, EmptyCache, TRUE),
                          disabled |-> filteredEvaluates(pfs, req, 1, EmptyCache, FALSE),
                          pruned |-> {pfs[i].name : i \in 1..Len(pfs)}
                                        \ {kept[i].name : i \in 1..Len(kept)},
                          matching |-> targetsWith(pfs, req, 1, EmptyCache, "Match"),
                          indeterminate |->
                              targetsWith(pfs, req, 1, EmptyCache, "Indeterminate")]
            /\ UNCHANGED notVal

-----------------------------------------------------------------------------
(* DateTimeAttribute: the accessors of pdp/xacml/attr/dateTimeAttribute.js   *)
(* lines 150-172 and the module-level variables of lines 32-36               *)

\* a JavaScript value that is not undefined
Defined(x) == [v |-> x]

\* `var date; var timeZone; var defaultedTimeZone; var value; var nanoseconds;`
\* as the module is loaded
DateTimeModule ==
    [value |-> Undefined, timeZone |-> Undefined, defaultedTimeZone |-> Undefined]

\* the offsets moment reports (m.utcOffset()), in minutes east of UTC
UtcOffsets == {0, 60}

\* getInstance(value) on a well-formed literal: the new instance, whose fields
\* init sets through `this`, and the module-level variables afterwards, which
\* no statement of getInstance, dateTimeAttributeInit2 or init assigns
getInstanceIn(l, offset, module) ==
    [attr |-> [value |-> Defined(momentToDate(l)),
               nanoseconds |-> Defined(combineNanos(momentToDate(l), extractNanos(l))),
               timeZone |-> Defined(offset), defaultedTimeZone |-> Defined(offset)],
     module |-> module]

\* getValue(), getTimeZone(), getDefaultedTimeZone(): `return value;`,
\* `return timeZone;`, `return defaultedTimeZone;`
getValue(attr, module) == module.value
getTimeZone(attr, module) == module.timeZone
getDefaultedTimeZone(attr, module) == module.defaultedTimeZone

WellFormedLits == {l \in ParseLits : DateTimeGetInstance(l).ok}

\* getInstance three times, then the accessors on the second instance
ReadDateTime ==
    /\ valIn = NoCall
    /\ \E before \in WellFormedLits, l \in WellFormedLits, after \in WellFormedLits,
          offset \in UtcOffsets :
        LET first == getInstanceIn(before, offset, DateTimeModule)
            second == getInstanceIn(l, offset, first.module)
            third == getInstanceIn(after, offset, second.module)
        IN  /\ valIn' = [op |-> "DateTimeAttribute.getValue", before |-> before, l |-> l,
                         after |-> after]
            /\ valOut' = [constructed |-> second.attr,
                          getValue |-> getValue(second.attr, third.module),
                          getTimeZone |-> getTimeZone(second.attr, third.module),
                          getDefaultedTimeZone |->
                              getDefaultedTimeZone(second.attr, third.module)]
            /\ UNCHANGED notVal

-----------------------------------------------------------------------------
(* pdp/scripts/verify_logs.js on whole files: processFile (lines 107-204)    *)
(* and main (lines 206-233)                                                  *)

AuditCtx == EvaluationCtx(TRUE, "node-1", "medical", "train", <<>>)
SignedEntry == logDecision("Permit", AuditCtx, Null, "key-1", "ES256")
UnsignedEntry == logDecision("Deny", AuditCtx, Null, Null, "ES256")

\* The lines a log file may hold: an empty line, a line that is no JSON, the
\* JSON text null, a JSON object without pdpAudit, and audit entries as
\* written or altered afterwards
LogLines ==
    {[kind |-> k, entry |-> UnsignedEntry] : k \in {"blank", "garbage", "null", "object"}}
    \cup {[kind |-> "entry", entry |-> e] :
            e \in {SignedEntry, UnsignedEntry, Tamper(SignedEntry, "timestamp"),
                   Tamper(SignedEntry, "decision-no-payload"),
                   Tamper(UnsignedEntry, "timestamp")}}

\* a named file: missing, or its lines
LogFiles ==
    {[exists |-> FALSE, lines |-> <<>>], [exists |-> TRUE, lines |-> <<>>]}
    \cup {[exists |-> TRUE, lines |-> <<a>>] : a \in LogLines}
    \cup {[exists |-> TRUE, lines |-> <<a, b>>] : a \in LogLines, b \in LogLines}

\* lines 109-117 and 46-54: the counters at the start
ZeroCounters ==
    [totalLines |-> 0, jsonParseErrors |-> 0, missingPdpAudit |-> 0, schemaInvalid |-> 0,
     unsigned |-> 0, signedValid |-> 0, signedInvalid |-> 0]

Increment(local, k) == [local EXCEPT ![k] = @ + 1]

\* lines 119-198, the 'line' listener: the counters afterwards; threw = TRUE
\* when an exception leaves the listener (JSON.parse accepts the text null and
\* line 131 reads parsed.pdpAudit of it)
onLine(line, local, pubKeyPem) ==
    LET counted == Increment(local, "totalLines")
    IN  CASE line.kind = "blank" -> [local |-> counted, threw |-> FALSE]
          [] line.kind = "garbage" ->
                [local |-> Increment(counted, "jsonParseErrors"), threw |-> FALSE]
          [] line.kind = "null" -> [local |-> counted, threw |-> TRUE]
          [] line.kind = "object" ->
                [local |-> Increment(counted, "missingPdpAudit"), threw |-> FALSE]
          [] OTHER ->
                LET checked == IF validateSchema(line.entry.pdpAudit) THEN counted
                               ELSE Increment(counted, "schemaInvalid")
                IN  [local |-> Increment(checked, classify(line.entry, pubKeyPem)),
                     threw |-> FALSE]

\* processFile(file): the listener on every line in turn
RECURSIVE processFile(_, _, _, _)
processFile(lines, i, local, pubKeyPem) ==
    IF i > Len(lines) THEN [local |-> local, threw |-> FALSE]
    ELSE LET r == onLine(lines[i], local, pubKeyPem)
         IN  IF r.threw THEN r ELSE processFile(lines, i + 1, r.local, pubKeyPem)

\* line 221: for (let k of Object.keys(aggregate)) aggregate[k] += s[k] || 0
Merge(aggregate, s) == [k \in DOMAIN aggregate |-> aggregate[k] + s[k]]

\* main: the aggregate and the exit code of the process; an exception in the
\* listener is uncaught and ends the process with exit code 1
RECURSIVE main(_, _, _, _)
main(files, i, aggregate, pubKeyPem) ==
    IF i > Len(files)
    THEN [aggregate |-> aggregate,
          exitCode |-> IF \/ aggregate.signedInvalid > 0 \/ aggregate.schemaInvalid > 0
                          \/ aggregate.jsonParseErrors > 0
                       THEN 3 ELSE 0]
    ELSE IF ~files[i].exists THEN [aggregate |-> aggregate, exitCode |-> 2]
    ELSE LET s == processFile(files[i].lines, 1, ZeroCounters, pubKeyPem)
         IN  IF s.threw THEN [aggregate |-> aggregate, exitCode |-> 1]
             ELSE main(files, i + 1, Merge(aggregate, s.local), pubKeyPem)

\* node scripts/verify_logs.js <logfile1> [<logfile2>]
VerifyLogFiles ==
    /\ valIn = NoCall
    /\ \E first \in LogFiles, second \in LogFiles, n \in {1, 2}, pubKeyPem \in {Null, "key-1"} :
        /\ valIn' = [op |-> "verify_logs-files",
                     files |-> IF n = 1 THEN <<first>> ELSE <<first, second>>,
                     pubKeyPem |-> pubKeyPem]
        /\ valOut' = main(IF n = 1 THEN <<first>> ELSE <<first, second>>, 1, ZeroCounters,
                          pubKeyPem)
        /\ UNCHANGED notVal

NextAlg ==
    \/ Combine
    \/ AddDenyRule
    \/ EmitDecision
    \/ ApplyNot
    \/ ApplyAndOr
    \/ PreFilter
    \/ ReadDateTime
    \/ VerifyLogFiles

SpecAlg == InitVal /\ [][NextAlg]_vars

-----------------------------------------------------------------------------
(* Properties of the parallel evaluations (SpecPar) *)

AllDone == \A p \in Procs : procs[p].st = "done"

DistinctRequests == \A p, q \in Procs : p # q => procs[p].req # procs[q].req

\* the designator of the i-th lookup of an evaluation
LookupDesignator(i) == allDesignators(policyFiles)[i]

\* the lookup of the i-th designator in the p-th request's own attribute store
OwnLookup(p, i) ==
    GetAttribute(procs[p].context, LookupDesignator(i).type, LookupDesignator(i).id,
                 LookupDesignator(i).issuer, LookupDesignator(i).category)

\* C3: whatever the interleaving of the designator evaluations of the requests
\* running in parallel on one PDP instance, each request that has been answered
\* got the response it gets when the same requests are evaluated one after
\* another in the order of their arrival.
C3_ParallelAsSequential ==
    \A p \in Procs : procs[p].st = "done" => procs[p].resp = seqResponse(p)

\* Three different requests were answered, and the request that arrived first
\* evaluated the last designator of all: the evaluations overlapped.
C3_Witness == AllDone /\ DistinctRequests /\ cache.attributes.id = 1

\* C4: every lookup a designator evaluation returned to the evaluation of a
\* request is the lookup result of that request's own attribute store for the
\* designator's (category, id, dataType, issuer): no entry that the cache got
\* from another request or another tuple is ever returned.
C4_OwnStoreOnly ==
    \A p \in Procs : \A i \in 1..Len(procs[p].lookeds) :
        procs[p].lookeds[i] = OwnLookup(p, i)

\* Two requests whose stores differ on the same designator tuple have both
\* looked it up while the other's evaluation was under way, and the cache now
\* holds the entry of the first request.
C4_Witness ==
    /\ AllDone
    /\ \E p, q \in Procs : \E i \in 1..Len(procs[p].lookeds) :
         /\ p # q /\ i <= Len(procs[q].lookeds)
         /\ procs[p].lookeds[i] # procs[q].lookeds[i]
    /\ cache.attributes.id = 1

\* C5: two evaluations of the same request against the same policies give the
\* same response, whatever other requests were evaluated before, in between
\* or at the same time.
C5_Deterministic ==
    \A p, q \in Procs :
        (procs[p].st = "done" /\ procs[q].st = "done" /\ procs[p].req = procs[q].req)
            => procs[p].resp = procs[q].resp

\* The first and the third request are the same, another one arrived between
\* them, and all three were answered.
C5_Witness ==
    /\ AllDone
    /\ procs[1].req = procs[MaxProc].req
    /\ \E q \in Procs : procs[q].req # procs[1].req

\* C6: AttributeDesignator.evaluate returns an Indeterminate lookup unchanged;
\* a non-empty bag as it is; the empty bag when mustBePresent is false; and for
\* an empty bag with mustBePresent an Indeterminate result whose status is
\* missing-attribute and whose detail names the designator's category, id,
\* dataType and issuer.
C6_DesignatorResult ==
    \A p \in Procs : \A i \in 1..Len(procs[p].outs) :
        LET d == LookupDesignator(i)
            looked == procs[p].lookeds[i]
            out == procs[p].outs[i]
        IN  IF looked.indeterminate THEN out = looked
            ELSE IF looked.attributeValues # {} THEN out = looked
            ELSE IF ~d.mustBePresent THEN out = looked /\ out.attributeValues = {}
            ELSE /\ out.indeterminate
                 /\ out.status.code = <<"missing-attribute">>
                 /\ out.status.detail = <<[category |-> d.category, id |-> d.id,
                                           type |-> d.type, issuer |-> d.issuer]>>

\* Each of the four cases has happened: an Indeterminate lookup, a non-empty
\* bag, an empty bag without mustBePresent and an empty bag with it.
C6_Witness ==
    /\ \E p \in Procs : \E i \in 1..Len(procs[p].outs) : procs[p].lookeds[i].indeterminate
    /\ \E p \in Procs : \E i \in 1..Len(procs[p].outs) :
         /\ ~procs[p].lookeds[i].indeterminate
         /\ procs[p].lookeds[i].attributeValues # {}
    /\ \E p \in Procs : \E i \in 1..Len(procs[p].outs) :
         /\ ~procs[p].lookeds[i].indeterminate
         /\ procs[p].lookeds[i].attributeValues = {}
         /\ ~LookupDesignator(i).mustBePresent
    /\ \E p \in Procs : \E i \in 1..Len(procs[p].outs) :
         /\ ~procs[p].lookeds[i].indeterminate
         /\ procs[p].lookeds[i].attributeValues = {}
         /\ LookupDesignator(i).mustBePresent
         /\ procs[p].outs[i].indeterminate

-----------------------------------------------------------------------------
(* Properties of Luas.evaluates (SpecLib) *)

Decisions == {"Permit", "Deny", "NotApplicable", "Indeterminate"}

Evaluated == evalIn # Undefined

\* C1: for every request string and every loaded policy set Luas.evaluates
\* returns a response whose decision is Permit, Deny, NotApplicable or
\* Indeterminate; it never returns undefined nor a null decision.
C1_EvaluatesTotal ==
    Evaluated => (evalOut # Undefined /\ evalOut.decision \in Decisions)

\* a dateTime literal of the lexical form YYYY-MM-DDThh:mm:ss(.f+)?(Z|+-hh:mm)
\* that names a real date
WellFormedDateTime(l) ==
    /\ l.dt = "ok"
    /\ (l.hasDot => l.frac # <<>>)
    /\ l.tz \in TzDesignators

\* the request is no XML document rooted at Request, or one of its attribute
\* values has an unknown dataType, a malformed dateTime or a malformed boolean
CannotBeParsed(req) ==
    \/ req.xml # "ok"
    \/ \E a \in req.attrs :
         \/ a.type \notin {StringType, BooleanType, DateTimeType}
         \/ a.type = DateTimeType /\ ~WellFormedDateTime(a.value.lit)
         \/ a.type = BooleanType /\ a.value.s \notin {"true", "false"}

\* C2: a request that cannot be parsed is answered with decision
\* Indeterminate and empty obligations and attributes, the policy evaluator is
\* not invoked for it, and nothing is thrown.
C2_UnparseableIsIndeterminate ==
    (Evaluated /\ CannotBeParsed(evalIn)) =>
        /\ evalOut # Undefined
        /\ evalOut.decision = "Indeterminate"
        /\ evalOut.obligations = JsonStringify(<<>>)
        /\ evalOut.attributes = JsonStringify(<<>>)
        /\ ~pdpRan
        /\ pdpOut = Undefined

\* A well-formed document with an attribute value the loader rejects was
\* answered Indeterminate by an instance that has evaluated requests before.
C2_Witness ==
    /\ Evaluated
    /\ evalIn.xml = "ok"
    /\ CannotBeParsed(evalIn)
    /\ evalOut # Undefined
    /\ evalOut.decision = "Indeterminate"
    /\ cache # EmptyCache

\* C8: a dateTime literal is accepted only if it carries a timezone designator
\* (Z or +-HH:MM); a request with a dateTime attribute that has no timezone is
\* rejected by the loader as malformed and its decision is Indeterminate.
C8_TimezoneRequired ==
    Evaluated =>
        \A a \in evalIn.attrs :
            a.type = DateTimeType =>
                /\ DateTimeGetInstance(a.value.lit).ok => a.value.lit.tz \in TzDesignators
                /\ pdpRan => a.value.lit.tz \in TzDesignators
                /\ a.value.lit.tz = "" =>
                     /\ evalOut # Undefined
                     /\ evalOut.decision = "Indeterminate"
                     /\ evalOut.message = "Malformed dateTime value"

\* A request whose task_expires is a dateTime of the right shape without a
\* timezone was answered Indeterminate.
C8_Witness ==
    /\ Evaluated
    /\ \E a \in evalIn.attrs : a.type = DateTimeType /\ a.value.lit = LitNoTz
    /\ evalOut # Undefined
    /\ evalOut.decision = "Indeterminate"

\* C9: the obligations of a response are exactly the obligation expressions
\* of the applicable policies whose FulfillOn equals the final decision: none
\* with another FulfillOn is returned and none with that FulfillOn is dropped,
\* also when two policy files use the same ObligationId.
C9_ObligationsMatchDecision ==
    (Evaluated /\ pdpRan /\ evalOut # Undefined) =>
        /\ \A i \in 1..Len(evalOut.obligations.json) :
             evalOut.obligations.json[i].fulfillOn = evalOut.decision
        /\ \A i \in 1..Len(pdpOut.obligations) :
             \E j \in 1..Len(evalOut.obligations.json) :
                 evalOut.obligations.json[j] = pdpOut.obligations[i]

\* the request carries a value for the designator under its category
Supplied(req, d) ==
    \E a \in req.attrs : a.category = d.category /\ a.id = d.id /\ a.type = d.type

\* the policies whose Target the request's action matches
Applicable(pfs, req) ==
    {i \in 1..Len(pfs) :
        {a.value : a \in {b \in req.attrs : b.category = ActionCategory /\ b.id = "action"}}
            = {StrVal(pfs[i].action)}}

\* the designators with MustBePresent of the applicable policies for which the
\* request carries no value under the designator's category
Omitted(pfs, req) ==
    {d \in UNION {{policyDesignators(pfs[i])[k] : k \in 1..Len(policyDesignators(pfs[i]))} :
                    i \in Applicable(pfs, req)} :
        d.mustBePresent /\ ~Supplied(req, d)}

\* what the status detail says of one missing attribute
MissingAttributeDetail(d) ==
    [id |-> d.id, type |-> d.type, category |-> d.category, issuer |-> d.issuer]

-----------------------------------------------------------------------------
(* Properties of the HTTP server (Spec) *)

\* C7: when a configured policy file fails to load, initialisation is aborted:
\* the server does not listen and the process has exited with code 1.
C7_LoadFailureAborts ==
    (initPc = "done" /\ loadFailed) =>
        /\ server # "listening"
        /\ exited
        /\ exitCode = 1

\* C10: the body of a successful GET /getDecision has a top-level field
\* decision that is one of the strings Permit, Deny, Indeterminate and
\* NotApplicable, not an object.
C10_DecisionIsString ==
    httpOut.status = 200 =>
        /\ "decision" \in DOMAIN httpOut.body
        /\ httpOut.body.decision.kind = "string"
        /\ httpOut.body.decision.value \in Decisions

\* the action values the README documents for GET /getDecision
DocumentedActions == {"task-authorization", "node-activation", "train", "evaluate"}

\* C11: GET /getDecision accepts each documented action value with its
\* required parameters: for a task and a node the policy information point
\* knows, a request is built and a decision is returned, not a 400 error.
C11_DocumentedActionsAccepted ==
    (/\ httpIn.path = "/getDecision"
     /\ luas = "instance"
     /\ httpIn.query.action \in DocumentedActions
     /\ httpIn.query.task_id = "medical"
     /\ httpIn.query.node_id = "n1"
     /\ "medical" \in DOMAIN httpIn.data.tasks)
        => httpOut.status = 200

\* PDP initialisation has completed successfully
InitSucceeded == initPc = "done" /\ ~loadFailed

-----------------------------------------------------------------------------
(* Properties of the shutdown (SpecShut) *)

\* C13: after SIGTERM or SIGINT the process always terminates, with exit code
\* 0 once the server has closed with every accepted request answered, or with
\* exit code 1 when the 10 s timer fires first; a process whose server was
\* never started exits 0 at once; no request in flight is cut off by anything
\* but that timer.
C13_ShutdownTerminates ==
    /\ (signals > 0) ~> exited
    /\ [](exited => exitCode \in {0, 1})
    /\ []((exited /\ exitCode = 0) => inflight = 0)
    /\ []((signals > 0 /\ server = "undefined") => (exited /\ exitCode = 0))
    /\ [][(~exited /\ exited' /\ exitCode' = 1) => timerArmed]_vars

\* A server that had answered a request was signalled and exited 0 after it
\* had closed.
C13_Witness ==
    /\ exited /\ exitCode = 0
    /\ signals > 0
    /\ server = "listening"
    /\ httpIn.path = "/getDecision"
    /\ timerArmed

-----------------------------------------------------------------------------
(* Properties of the library's functions (SpecVal) *)

\* C14: an <Attributes> group with one <Content> element is accepted by the
\* loader and getContent returns that content; only a second <Content>
\* element is an error.
C14_ContentPreserved ==
    (valIn.op = "Attributes.getInstance" /\ valIn.x.root = "Attributes") =>
        IF Len(valIn.x.contents) <= 1
        THEN /\ valOut.ok
             /\ Len(valIn.x.contents) = 1 => getContent(valOut.attr) = valIn.x.contents[1]
        ELSE ~valOut.ok

\* the absolute instant a dateTime text names, in nanoseconds after the epoch
RECURSIVE FracNanos(_, _)
FracNanos(frac, i) ==
    IF i > Len(frac) \/ i > 9 THEN 0 ELSE frac[i] * Pow10(9 - i) + FracNanos(frac, i + 1)

WholeSecond(l) == l.secs - TzOffset(l.tz)

SameInstant(la, lb) ==
    WholeSecond(la) = WholeSecond(lb) /\ FracNanos(la.frac, 1) = FracNanos(lb.frac, 1)

\* C15: for any two parsed dateTime values a and b, a.equals(b) throws
\* nothing and is true if and only if a and b are the same absolute instant,
\* whatever their timezone offsets.
C15_EqualsByInstant ==
    valIn.op = "DateTimeAttribute.equals" =>
        (~valOut.threw /\ (valOut.value <=> SameInstant(valIn.a, valIn.b)))

\* C16: parsing a dateTime text with a fraction of up to nine digits gives a
\* value whose nanoseconds are the fraction in nanoseconds and whose instant
\* is in the second the text names.
C16_NanosecondsOfFraction ==
    (/\ valIn.op = "DateTimeAttribute.getInstance"
     /\ valOut.ok
     /\ valIn.l.hasDot
     /\ Len(valIn.l.frac) <= 9) =>
        /\ valOut.attr.nanoseconds = FracNanos(valIn.l.frac, 1)
        /\ valOut.attr.value \div MILLIS_PER_SECOND = WholeSecond(valIn.l)

\* C17: verify_logs counts a signed entry as signedValid only if the pdpAudit
\* it logs is the pdpAudit inside the payload the signature verifies; an entry
\* whose pdpAudit was altered after signing, jws and signedPayload left as
\* they were, is counted signedInvalid and the run ends with exit code 3.
C17_TamperEvident ==
    (valIn.op = "verify_logs" /\ valIn.entry.jws # NoToken) =>
        /\ valOut.class = "signedValid" =>
             valIn.entry.pdpAudit = valIn.entry.jws.payload.json.pdpAudit
        /\ (valIn.tamper = "decision" /\ valIn.pubKeyPem = valIn.privateKey) =>
             (valOut.class = "signedInvalid" /\ valOut.exitCode = 3)

StrictlyLater(e, n) ==
    \/ WholeSecond(e) > WholeSecond(n)
    \/ WholeSecond(e) = WholeSecond(n) /\ FracNanos(e.frac, 1) > FracNanos(n.frac, 1)

\* the dateTime texts a request carries for an attribute
TextsOf(req, category, id) ==
    {a.value.lit : a \in {b \in req.attrs : b.category = category /\ b.id = id
                                              /\ b.type = DateTimeType}}

\* a task-authorization request that was evaluated against the task policy
TaskAuthorizationEvaluated ==
    /\ Evaluated
    /\ pdpRan
    /\ \E i \in Applicable(policyFiles, evalIn) : policyFiles[i].cond = "dtGreater"

\* C20: a task-authorization request is permitted only if its task_expires
\* is an instant strictly later than its current-dateTime; when the two name
\* the same instant, in whatever offsets, or task_expires is the earlier one,
\* the decision is Deny.
C20_StrictlyLater ==
    TaskAuthorizationEvaluated =>
        /\ evalOut # Undefined
        /\ evalOut.decision = "Permit" =>
             /\ TextsOf(evalIn, ResourceCategory, "task_expires") # {}
             /\ TextsOf(evalIn, EnvironmentCategory, "current-dateTime") # {}
             /\ \A e \in TextsOf(evalIn, ResourceCategory, "task_expires"),
                   n \in TextsOf(evalIn, EnvironmentCategory, "current-dateTime") :
                    StrictlyLater(e, n)
        /\ (\E e \in TextsOf(evalIn, ResourceCategory, "task_expires"),
               n \in TextsOf(evalIn, EnvironmentCategory, "current-dateTime") :
                ~StrictlyLater(e, n)) =>
             evalOut.decision = "Deny"

\* A request whose task_expires names the instant of its current-dateTime in
\* another offset was denied.
C20_Witness ==
    /\ TaskAuthorizationEvaluated
    /\ TextsOf(evalIn, ResourceCategory, "task_expires") = {LitNowOffset}
    /\ TextsOf(evalIn, EnvironmentCategory, "current-dateTime") = {LitNow}
    /\ evalOut # Undefined
    /\ evalOut.decision = "Deny"

-----------------------------------------------------------------------------
(* Properties of the combining algorithms (SpecAlg) *)

\* C21: when the deny-overrides combination of a policy's rules is Deny,
\* adding one more rule with effect Deny, whatever it evaluates to and wherever
\* it stands, does not make the combination Permit.
C21_DenyOverridesMonotone ==
    (valIn.op = "add-deny-rule" /\ valOut.before = "Deny") => valOut.after # "Permit"

\* A rule with effect Deny that is not applicable was put before two rules
\* that combine to Deny, and the combination stayed Deny.
C21_Witness ==
    /\ valIn.op = "add-deny-rule"
    /\ Len(valIn.children) = 2
    /\ "Permit" \in {valIn.children[i] : i \in 1..Len(valIn.children)}
    /\ valIn.added = "NotApplicable"
    /\ valIn.at = 1
    /\ valOut.before = "Deny"
    /\ valOut.after = "Deny"

\* C22 as stated: for deny-overrides, permit-overrides, first-applicable,
\* only-one-applicable, deny-unless-permit and permit-unless-deny the combined
\* decision of the children in any order equals the one in document order.
C22_OrderIndependent ==
    valIn.op = "combine" => valOut.permuted = valOut.inOrder

\* C22 as amended: for deny-overrides, permit-overrides, only-one-applicable,
\* deny-unless-permit and permit-unless-deny the combined decision of the
\* children in any order equals the one in document order.
C22_OrderIndependentButFirstApplicable ==
    (valIn.op = "combine" /\ valIn.alg # "first-applicable") =>
        valOut.permuted = valOut.inOrder

\* Three children with different decisions were combined by deny-overrides in
\* an order that is not the document order.
C22_Witness ==
    /\ valIn.op = "combine"
    /\ valIn.alg = "deny-overrides"
    /\ valIn.children = <<"Permit", "IndeterminateP", "NotApplicable">>
    /\ valIn.order = <<3, 1, 2>>
    /\ valOut.permuted = "Permit"

\* C23: deny-unless-permit is Permit if a child's decision is Permit and Deny
\* otherwise, permit-unless-deny is Deny if a child's decision is Deny and
\* Permit otherwise, for every list of children, the empty one and those with
\* Indeterminate children included.
C23_UnlessIsTwoValued ==
    valIn.op = "combine" =>
        LET ds == {valIn.children[i] : i \in 1..Len(valIn.children)}
        IN  /\ valIn.alg = "deny-unless-permit" =>
                 valOut.inOrder = IF "Permit" \in ds THEN "Permit" ELSE "Deny"
            /\ valIn.alg = "permit-unless-deny" =>
                 valOut.inOrder = IF "Deny" \in ds THEN "Deny" ELSE "Permit"

\* deny-unless-permit combined children none of which permits and the last of
\* which is Indeterminate, and the result was Deny.
C23_Witness ==
    /\ valIn.op = "combine"
    /\ valIn.alg = "deny-unless-permit"
    /\ valIn.children = <<"NotApplicable", "IndeterminateDP">>
    /\ valOut.inOrder = "Deny"

\* the due expressions of the element whose evaluation is Indeterminate
FailedExpressions ==
    {i \in 1..Len(dueExpressions(valIn.decision, valIn.expressions)) :
        LET d == dueExpressions(valIn.decision, valIn.expressions)[i].designator
        IN  \/ valIn.looked.indeterminate
            \/ valIn.looked.attributeValues = {} /\ d.mustBePresent}

\* C24: when an obligation or advice expression that is due for an element's
\* decision evaluates to Indeterminate, the element's decision is
\* Indeterminate{D} if it would have been Deny and Indeterminate{P} if Permit;
\* a Permit or Deny never goes out without one of its due expressions.
C24_ObligationFailurePromotes ==
    (valIn.op = "emit" /\ valIn.decision \in {"Permit", "Deny"}) =>
        /\ FailedExpressions # {} =>
             valOut.decision = IF valIn.decision = "Deny" THEN "IndeterminateD"
                               ELSE "IndeterminateP"
        /\ valOut.decision \in {"Permit", "Deny"} =>
             valOut.obligations = dueExpressions(valIn.decision, valIn.expressions)

\* A Deny with two due expressions, one of which needs an attribute the
\* request lacks, went out as Indeterminate{D}.
C24_Witness ==
    /\ valIn.op = "emit"
    /\ valIn.decision = "Deny"
    /\ Len(dueExpressions(valIn.decision, valIn.expressions)) = 2
    /\ Cardinality(FailedExpressions) = 1
    /\ valOut.decision = "IndeterminateD"

-----------------------------------------------------------------------------
(* Properties of the boolean functions (SpecAlg) *)

\* the result the one argument of not evaluates to
NotArgument ==
    CASE valIn.inputs.kind = "array" -> valIn.inputs.exprs[1]
      [] valIn.inputs.kind = "result" -> valIn.inputs.result
      [] OTHER -> EvaluationResultGetInstance(valIn.inputs.v)

ArgValues == {valIn.args[i].value : i \in {j \in 1..Len(valIn.args) : ~valIn.args[j].indeterminate}}

SomeArgIndeterminate == \E i \in 1..Len(valIn.args) : valIn.args[i].indeterminate

\* C25: and with an argument that is false is false and or with an argument
\* that is true is true, wherever that argument stands and whatever the
\* others are, Indeterminate included; without such an argument an
\* Indeterminate argument makes the result Indeterminate, and without either
\* and is true and or is false.
C25_ShortCircuit ==
    valIn.op = "and-or" =>
        LET determining == IF valIn.fn = "and" THEN "false" ELSE "true"
        IN  /\ determining \in ArgValues =>
                 valOut = EvaluationResultGetInstance(determining)
            /\ (determining \notin ArgValues /\ SomeArgIndeterminate) => valOut.indeterminate
            /\ (determining \notin ArgValues /\ ~SomeArgIndeterminate) =>
                 valOut = EvaluationResultGetInstance(jsNot(determining))

\* and was applied to an Indeterminate argument followed by a false one and
\* gave false.
C25_Witness ==
    /\ valIn.op = "and-or"
    /\ valIn.fn = "and"
    /\ valIn.args = <<IndeterminateResult, EvaluationResultGetInstance("false")>>
    /\ valOut = EvaluationResultGetInstance("false")


PipInfo(q, data) ==
    LET byNode == IF q.node_id # ""
                  THEN getMembershipInfo(data, q.task_id, q.node_id, DtVal(LitNow))
                  ELSE Undefined
    IN  IF byNode = Undefined THEN getMembershipTypeInfo(data, q.task_id, DtVal(LitNow))
        ELSE byNode

\* the request asserts the value for the attribute
Asserts(req, id, value) == \E a \in req.attrs : a.id = id /\ a.value = value

\* the request asserts an expiry later than its current-dateTime
AssertsFuture(req, id) ==
    \E a \in req.attrs, n \in req.attrs :
        /\ a.id = id /\ n.id = "current-dateTime"
        /\ a.value.lit.secs > n.value.lit.secs

\* C28: fail-closed request building: when the policy information point holds
\* no is_member_of_task, task_role, task_expires or task_membership_expires
\* for the requested task and node, the request built for a train or evaluate
\* action does not assert membership 'true', role 'participant' or a future
\* expiry in its place, and the decision is not Permit.
C28_FailClosedRequestBuilding ==
    (/\ httpIn.path = "/getDecision"
     /\ ToLowerCase(httpIn.query.action) \in {"train", "evaluate"}
     /\ evalIn # Undefined) =>
        LET info == PipInfo(httpIn.query, httpIn.data)
        IN  /\ info.isMember = Undefined => ~Asserts(evalIn, "is_member_of_task", StrVal("true"))
            /\ info.taskRole = Undefined => ~Asserts(evalIn, "task_role", StrVal("participant"))
            /\ info.taskExpires = Undefined => ~AssertsFuture(evalIn, "task_expires")
            /\ info.taskMembershipExpires = Undefined
                    => ~AssertsFuture(evalIn, "task_membership_expires")
            /\ (\/ info.isMember = Undefined \/ info.taskRole = Undefined
                \/ info.taskExpires = Undefined \/ info.taskMembershipExpires = Undefined)
                    => (evalOut = Undefined \/ evalOut.decision # "Permit")


\* C29: a DateTimeAttribute is self-contained: after any sequence of
\* getInstance calls, getValue(), getTimeZone() and getDefaultedTimeZone() on
\* an instance return the instant and the offsets the instance was constructed
\* with, whatever was parsed before or after it.
C29_AccessorsReturnOwnFields ==
    valIn.op = "DateTimeAttribute.getValue" =>
        /\ valOut.getValue = valOut.constructed.value
        /\ valOut.getTimeZone = valOut.constructed.timeZone
        /\ valOut.getDefaultedTimeZone = valOut.constructed.defaultedTimeZone


\* the number of non-empty lines of the files
RECURSIVE NonEmptyLines(_)
NonEmptyLines(files) ==
    IF files = <<>> THEN 0
    ELSE Cardinality({i \in 1..Len(Head(files).lines) : Head(files).lines[i].kind # "blank"})
            + NonEmptyLines(Tail(files))

\* C30: verify_logs counts every non-empty line in exactly one of
\* jsonParseErrors, missingPdpAudit, unsigned, signedValid, signedInvalid (a
\* signed entry with no public key counts as signedInvalid); the run ends with
\* exit code 3 iff the aggregate has signedInvalid, schemaInvalid or
\* jsonParseErrors above 0 and with 0 otherwise, and with 2 when a named file
\* does not exist.
C30_AccountingAndVerdict ==
    valIn.op = "verify_logs-files" =>
        IF \E i \in 1..Len(valIn.files) : ~valIn.files[i].exists
        THEN valOut.exitCode = 2
        ELSE /\ valOut.aggregate.jsonParseErrors + valOut.aggregate.missingPdpAudit
                    + valOut.aggregate.unsigned + valOut.aggregate.signedValid
                    + valOut.aggregate.signedInvalid
                = NonEmptyLines(valIn.files)
             /\ (valIn.pubKeyPem = Null =>
                    valOut.aggregate.signedInvalid
                    = Cardinality({<<f, i>> \in (1..Len(valIn.files)) \X (1..2) :
                            /\ i <= Len(valIn.files[f].lines)
                            /\ valIn.files[f].lines[i].kind = "entry"
                            /\ valIn.files[f].lines[i].entry.jws # NoToken}))
             /\ valOut.exitCode
                = IF \/ valOut.aggregate.signedInvalid > 0
                     \/ valOut.aggregate.schemaInvalid > 0
                     \/ valOut.aggregate.jsonParseErrors > 0
                  THEN 3 ELSE 0

====
